---------------------------- MODULE Spec2Model ----------------------------
(***************************************************************************)
(* A model of the documentation learning and retrieval engine:            *)
(*   src/tools/claw_learn.py  (DocLearner: learn, store, show)            *)
(*   src/tools/claw_ask.py    (SemanticSearcher, load_learned_docs,       *)
(*                             synthesize_answer)                         *)
(*                                                                         *)
(* Representation.                                                         *)
(*  - A Python str is a sequence of one-character strings.                 *)
(*  - A Python float is a fixed-point integer.  IDF weights and vector     *)
(*    weights are in thousandths (Milli), similarity scores are in         *)
(*    ten-thousandths (Scale).  Every operation rounds down.               *)
(*  - A Python dict with insertion order is a sequence of <<key, value>>   *)
(*    pairs with distinct keys.  A dict read only by key (idf, a TF map,   *)
(*    a vector) is a function on its key set.                              *)
(*  - A JSON value is a tagged record [t |-> tag, v |-> payload].          *)
(***************************************************************************)
EXTENDS Integers, Sequences, FiniteSets, TLC

(***************************************************************************)
(* Bounds of the model                                                     *)
(***************************************************************************)
MaxUnits == 3
MaxFiles == 3
MaxMdLines == 4
MaxManLines == 4
MaxTextLen == 5
MaxSentences == 4
MaxExampleLines == 4

(***************************************************************************)
(* Characters and strings                                                  *)
(***************************************************************************)
UpperChars == <<"A","B","C","D","E","F","G","H","I","J","K","L","M",
                "N","O","P","Q","R","S","T","U","V","W","X","Y","Z">>
LowerChars == <<"a","b","c","d","e","f","g","h","i","j","k","l","m",
                "n","o","p","q","r","s","t","u","v","w","x","y","z">>
DigitChars == {"0","1","2","3","4","5","6","7","8","9"}
SpaceChars == {" ", "\n", "\t", "\r"}

Range(s) == {s[i] : i \in DOMAIN s}

IsUpper(c) == c \in Range(UpperChars)
IsAlnum(c) == c \in Range(UpperChars) \cup Range(LowerChars) \cup DigitChars
\* \w of the re module
IsWordChar(c) == IsAlnum(c) \/ c = "_"
IsSpace(c) == c \in SpaceChars

\* str.lower(), one character
LowerChar(c) ==
    IF IsUpper(c)
    THEN LowerChars[CHOOSE i \in DOMAIN UpperChars : UpperChars[i] = c]
    ELSE c

\* str.lower()
Lower(s) == [i \in DOMAIN s |-> LowerChar(s[i])]

\* s[:n] for n >= 0
Prefix(s, n) == IF n >= Len(s) THEN s ELSE SubSeq(s, 1, n)

\* s[n:] for n >= 0 (0-based n)
Suffix(s, n) == IF n >= Len(s) THEN <<>> ELSE SubSeq(s, n + 1, Len(s))

\* s.startswith(p)
StartsWith(s, p) == Len(p) <= Len(s) /\ SubSeq(s, 1, Len(p)) = p

\* s.endswith(p)
EndsWith(s, p) ==
    Len(p) <= Len(s) /\ SubSeq(s, Len(s) - Len(p) + 1, Len(s)) = p

\* needle in hay  (substring test of str)
Contains(hay, needle) ==
    \E i \in 0..(Len(hay) - Len(needle)) :
        SubSeq(hay, i + 1, i + Len(needle)) = needle

\* str.strip(): whitespace removed at both ends
RECURSIVE LStrip(_)
LStrip(s) ==
    IF s # <<>> /\ IsSpace(Head(s)) THEN LStrip(Tail(s)) ELSE s

RECURSIVE RStrip(_)
RStrip(s) ==
    IF s # <<>> /\ IsSpace(s[Len(s)])
    THEN RStrip(SubSeq(s, 1, Len(s) - 1))
    ELSE s

Strip(s) == RStrip(LStrip(s))

\* str.split(): the maximal runs of non-whitespace characters, in order
Split(s) ==
    LET at     == {i \in DOMAIN s : ~IsSpace(s[i]) /\ (i = 1 \/ IsSpace(s[i - 1]))}
        nth(k) == CHOOSE i \in at : Cardinality({j \in at : j < i}) = k - 1
        end(i) == CHOOSE j \in i..Len(s) :
                      /\ \A k \in i..j : ~IsSpace(s[k])
                      /\ j = Len(s) \/ IsSpace(s[j + 1])
    IN  [k \in 1..Cardinality(at) |-> SubSeq(s, nth(k), end(nth(k)))]

\* str.split(sep) for a one-character sep: the pieces between the places of
\* sep, empty pieces kept
SplitOn(s, sep) ==
    LET at     == {i \in DOMAIN s : s[i] = sep}
        nth(k) == CHOOSE i \in at : Cardinality({j \in at : j < i}) = k - 1
        n      == Cardinality(at)
        from(k) == IF k = 1 THEN 1 ELSE nth(k - 1) + 1
        to(k)   == IF k = n + 1 THEN Len(s) ELSE nth(k) - 1
    IN  [k \in 1..(n + 1) |-> SubSeq(s, from(k), to(k))]

\* sep.join(parts) for a string sep
RECURSIVE Join(_, _)
Join(parts, sep) ==
    IF parts = <<>> THEN <<>>
    ELSE IF Len(parts) = 1 THEN parts[1]
    ELSE parts[1] \o sep \o Join(Tail(parts), sep)

\* str.isdigit()
IsDigitStr(s) == s # <<>> /\ \A i \in DOMAIN s : s[i] \in DigitChars

(***************************************************************************)
(* Fixed-point arithmetic                                                  *)
(***************************************************************************)
Milli == 10 * 100
Scale == 100 * 100

\* round(1000 * ln(n / d)) for n in 1..9 (row) and d in 1..10 (column)
LnTable ==
    << <<0, -693, -1099, -1386, -1609, -1792, -1946, -2079, -2197, -2303>>,
       <<693, 0, -405, -693, -916, -1099, -1253, -1386, -1504, -1609>>,
       <<1099, 405, 0, -288, -511, -693, -847, -981, -1099, -1204>>,
       <<1386, 693, 288, 0, -223, -405, -560, -693, -811, -916>>,
       <<1609, 916, 511, 223, 0, -182, -336, -470, -588, -693>>,
       <<1792, 1099, 693, 405, 182, 0, -154, -288, -405, -511>>,
       <<1946, 1253, 847, 560, 336, 154, 0, -134, -251, -357>>,
       <<2079, 1386, 981, 693, 470, 288, 134, 0, -118, -223>>,
       <<2197, 1504, 1099, 811, 588, 405, 251, 118, 0, -105>> >>

\* math.log(n / d), in thousandths
LogMilli(n, d) == LnTable[n][d]

\* math.sqrt(n), rounded down
RECURSIVE SqrtBetween(_, _, _)
SqrtBetween(n, lo, hi) ==
    IF lo >= hi THEN lo
    ELSE LET mid == (lo + hi + 1) \div 2
         IN  IF mid * mid <= n
             THEN SqrtBetween(n, mid, hi)
             ELSE SqrtBetween(n, lo, mid - 1)

Sqrt(n) == SqrtBetween(n, 0, 46340)

RECURSIVE SumOver(_, _)
SumOver(S, f) ==
    IF S = {} THEN 0
    ELSE LET x == CHOOSE y \in S : TRUE
         IN  f[x] + SumOver(S \ {x}, f)

(***************************************************************************)
(* SemanticSearcher: tokenizer, TF, IDF, vectors, cosine similarity        *)
(***************************************************************************)
TOP_K_RESULTS == 5
\* 0.05
MIN_SIMILARITY == (5 * Scale) \div 100

\* re.sub(r'[^\w\s\-_\.]', ' ', text): one character
CleanChar(c) ==
    IF IsWordChar(c) \/ IsSpace(c) \/ c \in {"-", "_", "."} THEN c ELSE " "

\* A tokenizer that keeps the purely numeric pieces
_tokenize_keep_numeric(text) ==
    LET lowered == Lower(text)
        cleaned == [i \in DOMAIN lowered |-> CleanChar(lowered[i])]
        tokens  == Split(cleaned)
    IN  SelectSeq(tokens, LAMBDA t : Len(t) > 1)

_tokenize(text) ==
    LET lowered == Lower(text)
        cleaned == [i \in DOMAIN lowered |-> CleanChar(lowered[i])]
        tokens  == Split(cleaned)
    IN  SelectSeq(tokens, LAMBDA t : Len(t) > 1 /\ ~IsDigitStr(t))

\* Counter(tokens)[term]
Count(tokens, term) == Cardinality({i \in DOMAIN tokens : tokens[i] = term})

\* term -> count / total, in thousandths
_compute_tf(tokens) ==
    LET total == IF Len(tokens) = 0 THEN 1 ELSE Len(tokens)
    IN  [term \in Range(tokens) |-> (Count(tokens, term) * Milli) \div total]

\* the distinct elements of a sequence, in order of first occurrence
RECURSIVE Dedupe(_)
Dedupe(s) ==
    IF s = <<>> THEN <<>>
    ELSE LET init == Dedupe(SubSeq(s, 1, Len(s) - 1))
             last == s[Len(s)]
         IN  IF last \in Range(init) THEN init ELSE Append(init, last)

RECURSIVE Flatten(_)
Flatten(ss) == IF ss = <<>> THEN <<>> ELSE Head(ss) \o Flatten(Tail(ss))

IndexOf(s, x) == CHOOSE i \in DOMAIN s : s[i] = x

\* An IDF without smoothing: ln(N / df)
_build_vocab_unsmoothed(all_tokens) ==
    LET terms    == UNION {Range(all_tokens[i]) : i \in DOMAIN all_tokens}
        doc_freq == [term \in terms |->
                        Cardinality({i \in DOMAIN all_tokens :
                                        term \in Range(all_tokens[i])})]
        n_docs   == IF Len(all_tokens) = 0 THEN 1 ELSE Len(all_tokens)
        order    == Dedupe(Flatten(all_tokens))
    IN  [idf   |-> [term \in terms |-> LogMilli(n_docs, doc_freq[term])],
         vocab |-> [term \in terms |-> IndexOf(order, term) - 1]]

\* The new values of self.idf and self.vocab.  The ids of vocab follow the
\* insertion order of doc_freq: unit by unit, and inside one unit the order
\* of Python's set iteration, taken here as the order of first occurrence
\* (no code reads the ids).
_build_vocab(all_tokens) ==
    LET terms    == UNION {Range(all_tokens[i]) : i \in DOMAIN all_tokens}
        doc_freq == [term \in terms |->
                        Cardinality({i \in DOMAIN all_tokens :
                                        term \in Range(all_tokens[i])})]
        n_docs   == IF Len(all_tokens) = 0 THEN 1 ELSE Len(all_tokens)
        order    == Dedupe(Flatten(all_tokens))
    IN  [idf   |-> [term \in terms |->
                       LogMilli(n_docs, doc_freq[term] + 1) + Milli],
         vocab |-> [term \in terms |-> IndexOf(order, term) - 1]]

\* term -> weight * self.idf.get(term, 1.0), in thousandths
_vectorize(self_idf, tf) ==
    [term \in DOMAIN tf |->
        (tf[term] * (IF term \in DOMAIN self_idf THEN self_idf[term] ELSE Milli))
            \div Milli]

\* vec.get(term, 0.0)
GetWeight(vec, term) == IF term \in DOMAIN vec THEN vec[term] ELSE 0

\* A similarity in which a term that a vector lacks weighs 1/1000 there
_cosine_similarity_dense(vec1, vec2) ==
    LET all_terms   == DOMAIN vec1 \cup DOMAIN vec2
        w(vec, t)   == IF t \in DOMAIN vec THEN vec[t] ELSE 1
        dot_product == SumOver(all_terms, [t \in all_terms |-> w(vec1, t) * w(vec2, t)])
        norm1       == SumOver(all_terms, [t \in all_terms |-> w(vec1, t) * w(vec1, t)])
        norm2       == SumOver(all_terms, [t \in all_terms |-> w(vec2, t) * w(vec2, t)])
    IN  IF norm1 = 0 \/ norm2 = 0
        THEN 0
        ELSE (((dot_product * 100) \div Sqrt(norm1)) * 100) \div Sqrt(norm2)

\* in ten-thousandths
_cosine_similarity(vec1, vec2) ==
    LET all_terms   == DOMAIN vec1 \cup DOMAIN vec2
        dot_product == SumOver(all_terms,
                         [t \in all_terms |-> GetWeight(vec1, t) * GetWeight(vec2, t)])
        norm1       == SumOver(all_terms,
                         [t \in all_terms |-> GetWeight(vec1, t) * GetWeight(vec1, t)])
        norm2       == SumOver(all_terms,
                         [t \in all_terms |-> GetWeight(vec2, t) * GetWeight(vec2, t)])
    IN  IF norm1 = 0 \/ norm2 = 0
        THEN 0
        ELSE (((dot_product * 100) \div Sqrt(norm1)) * 100) \div Sqrt(norm2)

\* The unit appended by add_document.  A section_name of None is the empty
\* string: every reader takes (section or '').
add_document(doc_id, title, content, source, section_name) ==
    [id      |-> doc_id,
     title   |-> title,
     content |-> content,
     source  |-> source,
     section |-> section_name,
     tokens  |-> _tokenize(content)]

\* self.doc_vectors after the loop of build_index
DocVectors(self_idf, documents_) ==
    [i \in DOMAIN documents_ |->
        _vectorize(self_idf, _compute_tf(documents_[i].tokens))]

\* A build_index that leaves the last unit without a vector
build_index_short(documents_) ==
    LET all_tokens == [i \in DOMAIN documents_ |-> documents_[i].tokens]
        bv         == _build_vocab(all_tokens)
    IN  [idf         |-> bv.idf,
         vocab       |-> bv.vocab,
         doc_vectors |-> DocVectors(bv.idf,
                                    SubSeq(documents_, 1, Len(documents_) - 1))]

\* The new values of idf, vocab and doc_vectors after build_index
build_index(documents_) ==
    LET all_tokens == [i \in DOMAIN documents_ |-> documents_[i].tokens]
        bv         == _build_vocab(all_tokens)
    IN  [idf         |-> bv.idf,
         vocab       |-> bv.vocab,
         doc_vectors |-> DocVectors(bv.idf, documents_)]

stop_words ==
    {<<"h","o","w">>, <<"d","o">>, <<"i">>, <<"w","h","a","t">>, <<"a","r","e">>, <<"t","h","e">>, <<"t","o">>, <<"a">>, <<"a","n">>,
     <<"i","s">>, <<"i","t">>, <<"w","i","t","h">>, <<"e","x","p","l","a","i","n">>}

\* 'for term in key_terms: if term in text: ...; break'
AnyTermIn(key_terms, text) == \E term \in key_terms : Contains(text, term)

\* Boosts without the 'break': the section and title factors are applied
\* once for every key term that matches
RECURSIVE TimesOver(_, _, _)
TimesOver(sim, n, tenths) ==
    IF n = 0 THEN sim ELSE TimesOver((sim * tenths) \div 10, n - 1, tenths)

BoostedPerTerm(sim, doc, key_terms, query_lower) ==
    LET title_lower   == Lower(doc.title)
        section_lower == Lower(doc.section)
        s1 == TimesOver(sim, Cardinality({t \in key_terms : Contains(section_lower, t)}), 15)
        s2 == TimesOver(s1, Cardinality({t \in key_terms : Contains(title_lower, t)}), 13)
        s3 == IF Contains(section_lower, <<"d","e","s","c","r","i","p","t","i","o","n">>)
                 \/ Contains(section_lower, <<"o","v","e","r","v","i","e","w">>)
              THEN (s2 * 115) \div 100 ELSE s2
        s4 == IF Contains(section_lower, <<"c","o","d","e">>)
                 /\ (Contains(query_lower, <<"e","x","a","m","p","l","e">>)
                     \/ Contains(query_lower, <<"h","o","w">>))
              THEN (s3 * 11) \div 10 ELSE s3
    IN  s4

\* sim after the four boosts of search, for one unit
Boosted(sim, doc, key_terms, query_lower) ==
    LET title_lower   == Lower(doc.title)
        section_lower == Lower(doc.section)
        s1 == IF AnyTermIn(key_terms, section_lower)
              THEN (sim * 15) \div 10 ELSE sim
        s2 == IF AnyTermIn(key_terms, title_lower)
              THEN (s1 * 13) \div 10 ELSE s1
        s3 == IF Contains(section_lower, <<"d","e","s","c","r","i","p","t","i","o","n">>)
                 \/ Contains(section_lower, <<"o","v","e","r","v","i","e","w">>)
              THEN (s2 * 115) \div 100 ELSE s2
        s4 == IF Contains(section_lower, <<"c","o","d","e">>)
                 /\ (Contains(query_lower, <<"e","x","a","m","p","l","e">>)
                     \/ Contains(query_lower, <<"h","o","w">>))
              THEN (s3 * 11) \div 10 ELSE s3
    IN  s4

\* list.sort(key=score, reverse=True): stable, an element stays behind the
\* elements of equal score that preceded it
RECURSIVE InsertByScore(_, _)

\* A sort that is not stable: the element passes the elements of equal score
InsertByScoreUnstable(sorted, e) ==
    IF sorted = <<>> THEN <<e>>
    ELSE IF Head(sorted).score > e.score
         THEN <<Head(sorted)>> \o InsertByScore(Tail(sorted), e)
         ELSE <<e>> \o sorted

InsertByScore(sorted, e) ==
    IF sorted = <<>> THEN <<e>>
    ELSE IF Head(sorted).score >= e.score
         THEN <<Head(sorted)>> \o InsertByScore(Tail(sorted), e)
         ELSE <<e>> \o sorted

RECURSIVE SortByScoreDesc(_)
SortByScoreDesc(s) ==
    IF s = <<>> THEN <<>>
    ELSE InsertByScore(SortByScoreDesc(SubSeq(s, 1, Len(s) - 1)), s[Len(s)])

\* s[:k] of a list, for every integer k
SliceTo(s, k) ==
    IF k >= 0 THEN Prefix(s, k)
    ELSE IF Len(s) + k <= 0 THEN <<>> ELSE SubSeq(s, 1, Len(s) + k)

\* A search that appends every unit, whatever its score
KeepScoreNoThreshold(sim) == TRUE

\* 'if sim >= MIN_SIMILARITY' of search
KeepScore(sim) == sim >= MIN_SIMILARITY

\* The list search returns.  pos is the position of the unit in
\* self.documents (the identity of the dict object).
search(self, query, top_k) ==
    LET query_vector == _vectorize(self.idf, _compute_tf(_tokenize(query)))
        query_lower  == Lower(query)
        key_terms    == Range(Split(query_lower)) \ stop_words
        scored == [i \in DOMAIN self.doc_vectors |->
                     [doc   |-> self.documents[i],
                      pos   |-> i,
                      score |-> Boosted(
                                  _cosine_similarity(query_vector,
                                                     self.doc_vectors[i]),
                                  self.documents[i], key_terms, query_lower)]]
        scores == SelectSeq(scored, LAMBDA e : KeepScore(e.score))
    IN  SliceTo(SortByScoreDesc(scores), top_k)

(***************************************************************************)
(* extract_relevant_snippet and synthesize_answer                          *)
(***************************************************************************)
\* What a call gives back: a value, or the exception it raised
Return(v) == [value |-> v, raised |-> FALSE, error |-> ""]
Raise(e) == [value |-> <<>>, raised |-> TRUE, error |-> e]

\* re.findall(r'\w+', s): the maximal runs of word characters
RECURSIVE WordsFrom(_, _, _, _)
WordsFrom(s, i, cur, acc) ==
    IF i > Len(s)
    THEN IF cur = <<>> THEN acc ELSE Append(acc, cur)
    ELSE IF IsWordChar(s[i])
         THEN WordsFrom(s, i + 1, Append(cur, s[i]), acc)
         ELSE WordsFrom(s, i + 1, <<>>,
                        IF cur = <<>> THEN acc ELSE Append(acc, cur))

Words(s) == WordsFrom(s, 1, <<>>, <<>>)

\* re.split(r'(?<=[.!?])\s+', content): cut at every run of whitespace that
\* follows '.', '!' or '?'; the run is dropped
SplitSentences(content) ==
    LET at      == {i \in 2..Len(content) :
                       /\ IsSpace(content[i])
                       /\ content[i - 1] \in {".", "!", "?"}}
        nth(k)  == CHOOSE i \in at : Cardinality({j \in at : j < i}) = k - 1
        n       == Cardinality(at)
        end(i)  == CHOOSE j \in i..Len(content) :
                       /\ \A k \in i..j : IsSpace(content[k])
                       /\ j = Len(content) \/ ~IsSpace(content[j + 1])
        from(k) == IF k = 1 THEN 1 ELSE end(nth(k - 1)) + 1
        to(k)   == IF k = n + 1 THEN Len(content) ELSE nth(k) - 1
    IN  [k \in 1..(n + 1) |-> SubSeq(content, from(k), to(k))]

\* sum(1 for term in query_terms if term in sentence.lower())
SentenceScore(sentence, query_terms) ==
    Cardinality({term \in query_terms : Contains(Lower(sentence), term)})

\* The index of the last sentence of the highest score
BestIdxLast(sentences, query_terms) ==
    CHOOSE i \in 0..(Len(sentences) - 1) :
        /\ \A j \in 0..(Len(sentences) - 1) :
              SentenceScore(sentences[j + 1], query_terms)
                  <= SentenceScore(sentences[i + 1], query_terms)
        /\ \A j \in (i + 1)..(Len(sentences) - 1) :
              SentenceScore(sentences[j + 1], query_terms)
                  < SentenceScore(sentences[i + 1], query_terms)

\* sentence_scores.sort(key=score, reverse=True)[0][0]: the 0-based index of
\* the first sentence of the highest score
BestIdx(sentences, query_terms) ==
    CHOOSE i \in 0..(Len(sentences) - 1) :
        /\ \A j \in 0..(Len(sentences) - 1) :
              SentenceScore(sentences[j + 1], query_terms)
                  <= SentenceScore(sentences[i + 1], query_terms)
        /\ \A j \in 0..(i - 1) :
              SentenceScore(sentences[j + 1], query_terms)
                  < SentenceScore(sentences[i + 1], query_terms)

\* The loop with a second pass over the same candidates before it gives up
RECURSIVE GrowLoopSecondPass(_, _, _, _, _, _)
GrowLoopSecondPass(sentences, result, prev_idx, next_idx, max_chars, iterations) ==
    IF ~(prev_idx >= 0 \/ next_idx < Len(sentences))
    THEN [result |-> result, prev_idx |-> prev_idx, next_idx |-> next_idx,
          iterations |-> iterations]
    ELSE LET cand1  == sentences[prev_idx + 1] \o <<" ">> \o result
             addP   == prev_idx >= 0 /\ Len(cand1) <= max_chars
             res1   == IF addP THEN cand1 ELSE result
             prev1  == IF addP THEN prev_idx - 1 ELSE prev_idx
             cand2  == res1 \o <<" ">> \o sentences[next_idx + 1]
             addN   == next_idx < Len(sentences) /\ Len(cand2) <= max_chars
             res2   == IF addN THEN cand2 ELSE res1
             next1  == IF addN THEN next_idx + 1 ELSE next_idx
         IN  IF ~(addP \/ addN)
             THEN [result |-> result, prev_idx |-> prev_idx,
                   next_idx |-> next_idx, iterations |-> iterations + 2]
             ELSE GrowLoopSecondPass(sentences, res2, prev1, next1, max_chars,
                                     iterations + 1)

\* The while loop of extract_relevant_snippet; prev_idx and next_idx are
\* 0-based as in the source.  iterations counts the passes through the body
\* of the loop, the one that ends in break included.
RECURSIVE GrowLoop(_, _, _, _, _, _)
GrowLoop(sentences, result, prev_idx, next_idx, max_chars, iterations) ==
    IF ~(prev_idx >= 0 \/ next_idx < Len(sentences))
    THEN [result |-> result, prev_idx |-> prev_idx, next_idx |-> next_idx,
          iterations |-> iterations]
    ELSE LET cand1  == sentences[prev_idx + 1] \o <<" ">> \o result
             addP   == prev_idx >= 0 /\ Len(cand1) <= max_chars
             res1   == IF addP THEN cand1 ELSE result
             prev1  == IF addP THEN prev_idx - 1 ELSE prev_idx
             cand2  == res1 \o <<" ">> \o sentences[next_idx + 1]
             addN   == next_idx < Len(sentences) /\ Len(cand2) <= max_chars
             res2   == IF addN THEN cand2 ELSE res1
             next1  == IF addN THEN next_idx + 1 ELSE next_idx
         IN  IF ~(addP \/ addN)
             THEN [result |-> result, prev_idx |-> prev_idx,
                   next_idx |-> next_idx, iterations |-> iterations + 1]
             ELSE GrowLoop(sentences, res2, prev1, next1, max_chars,
                           iterations + 1)

GrowSnippet(sentences, result, prev_idx, next_idx, max_chars) ==
    GrowLoop(sentences, result, prev_idx, next_idx, max_chars, 0).result

\* One call of extract_relevant_snippet: what it returns (snippet), the
\* return statement it leaves by (branch), and where the grow loop stood
\* when the call left it
SnippetRun(content, query, max_chars) ==
    LET query_terms == Range(Words(Lower(query)))
        sentences   == SplitSentences(content)
        best_idx    == BestIdx(sentences, query_terms)
    IN  IF Len(content) <= max_chars
        THEN [branch |-> "verbatim", snippet |-> content, sentences |-> <<>>,
              best_idx |-> -1, prev_idx |-> -1, next_idx |-> 0, iterations |-> 0]
        ELSE IF SentenceScore(sentences[best_idx + 1], query_terms) > 0
             THEN LET loop == GrowLoop(sentences, sentences[best_idx + 1],
                                       best_idx - 1, best_idx + 1, max_chars, 0)
                  IN  [branch |-> "grown", snippet |-> loop.result,
                       sentences |-> sentences, best_idx |-> best_idx,
                       prev_idx |-> loop.prev_idx, next_idx |-> loop.next_idx,
                       iterations |-> loop.iterations]
             ELSE [branch |-> "fallback",
                   snippet |-> Prefix(content, max_chars) \o <<".",".",".">>,
                   sentences |-> sentences, best_idx |-> -1, prev_idx |-> -1,
                   next_idx |-> 0, iterations |-> 0]

extract_relevant_snippet(content, query, max_chars) ==
    SnippetRun(content, query, max_chars).snippet

NoDocsMessage ==
    <<"I"," ","c","o","u","l","d","n","'","t"," ","f","i","n","d"," ","a","n","y"," ","r","e","l","e","v","a","n","t"," ","d","o","c","u","m","e","n","t","a","t","i","o","n"," ","f","o","r"," ","y","o","u","r"," ","q","u","e","s","t","i","o","n",".">>

\* The characters of the answer that are written by name: those outside
\* ASCII and the backquote
Backquote == "U+0060"
Books == "U+1F4DA"
Memo == "U+1F4DD"
OpenBook == "U+1F4D6"
Bullet == "U+2022"

\* docs_used: the sources of the results in order of first appearance, each
\* with the title of its first result and one entry per result
DocsUsed(query, results) ==
    LET sources == Dedupe([i \in DOMAIN results |-> results[i].doc.source])
        of(src) == SelectSeq(results, LAMBDA r : r.doc.source = src)
    IN  [k \in DOMAIN sources |->
            [source   |-> sources[k],
             title    |-> of(sources[k])[1].doc.title,
             sections |-> [j \in DOMAIN of(sources[k]) |->
                             [section |-> of(sources[k])[j].doc.section,
                              snippet |-> extract_relevant_snippet(
                                              of(sources[k])[j].doc.content,
                                              query, 400),
                              score   |-> of(sources[k])[j].score]]]]

\* The bullets of 'Additional Details', one bullet and one empty line for
\* each of results[1:3]
DetailLines(query, results) ==
    LET more == SubSeq(results, 2, IF Len(results) < 3 THEN Len(results) ELSE 3)
        bullet(r) ==
            LET content == extract_relevant_snippet(r.doc.content, query, 250)
            IN  IF r.doc.section # <<>> /\ r.doc.section # <<"D","e","s","c","r","i","p","t","i","o","n">>
                THEN <<Bullet>> \o <<" ","*">> \o r.doc.section \o <<":","*"," ">> \o content
                ELSE <<Bullet>> \o <<" ">> \o content
    IN  IF Len(results) > 1
        THEN << <<Memo>> \o <<" ","*","*","A","d","d","i","t","i","o","n","a","l"," ","D","e","t","a","i","l","s",":","*","*">>, <<>> >>
             \o Flatten([i \in DOMAIN more |-> << bullet(more[i]), <<>> >>])
        ELSE <<>>

\* Citation lines that list every section of the source
CitationLinesUnlimited(info) ==
    LET parts          == SplitOn(info.source, "/")
        source_display == IF Contains(info.source, <<"/">>)
                          THEN parts[Len(parts)] ELSE info.source
        shown          == info.sections
    IN  << <<Bullet>> \o <<" ">> \o <<Backquote>> \o info.title \o <<Backquote>>
           \o <<" ","(">> \o source_display \o <<")">> >>
        \o [j \in DOMAIN shown |->
               <<" "," ","-"," ","S","e","c","t","i","o","n",":"," ","*">>
               \o (IF shown[j].section # <<>>
                   THEN shown[j].section ELSE <<"o","v","e","r","v","i","e","w">>)
               \o <<"*">>]

\* The lines of one source under 'Sources': the citation line and at most
\* two section lines
CitationLines(info) ==
    LET parts          == SplitOn(info.source, "/")
        source_display == IF Contains(info.source, <<"/">>)
                          THEN parts[Len(parts)] ELSE info.source
        shown          == Prefix(info.sections, 2)
    IN  << <<Bullet>> \o <<" ">> \o <<Backquote>> \o info.title \o <<Backquote>>
           \o <<" ","(">> \o source_display \o <<")">> >>
        \o [j \in DOMAIN shown |->
               <<" "," ","-"," ","S","e","c","t","i","o","n",":"," ","*">>
               \o (IF shown[j].section # <<>>
                   THEN shown[j].section ELSE <<"o","v","e","r","v","i","e","w">>)
               \o <<"*">>]

\* lines, for a non-empty list of results
AnswerLines(query, results) ==
    LET docs_used   == DocsUsed(query, results)
        top_content == extract_relevant_snippet(results[1].doc.content, query, 600)
    IN  << <<Books>> \o <<" ","*","*","A","n","s","w","e","r",":","*","*">>, <<>>, top_content, <<>> >>
        \o DetailLines(query, results)
        \o << <<OpenBook>> \o <<" ","*","*","S","o","u","r","c","e","s",":","*","*">>, <<>> >>
        \o Flatten([k \in DOMAIN docs_used |-> CitationLines(docs_used[k])])

\* A synthesize_answer without the 'if not results' return: results[0]
\* raises on an empty list
synthesize_answer_unguarded(query, results) ==
    IF results = <<>>
    THEN Raise("IndexError")
    ELSE Return(Join(AnswerLines(query, results), <<"\n">>))

synthesize_answer(query, results) ==
    IF results = <<>>
    THEN Return(NoDocsMessage)
    ELSE Return(Join(AnswerLines(query, results), <<"\n">>))

(***************************************************************************)
(* Python values and the json module                                       *)
(***************************************************************************)
\* The values that json.load builds and json.dump writes
Str(s) == [t |-> "str", v |-> s]
Num(n) == [t |-> "int", v |-> n]
List(xs) == [t |-> "list", v |-> xs]
Dict(pairs) == [t |-> "dict", v |-> pairs]
None == [t |-> "none", v |-> <<>>]

IsStr(x) == x.t = "str"
IsDict(x) == x.t = "dict"
IsList(x) == x.t = "list"

\* bool(x)
Truthy(x) ==
    CASE x.t = "str"  -> x.v # <<>>
      [] x.t = "int"  -> x.v # 0
      [] x.t = "list" -> x.v # <<>>
      [] x.t = "dict" -> x.v # <<>>
      [] x.t = "none" -> FALSE

Keys(pairs) == [i \in DOMAIN pairs |-> pairs[i][1]]

\* key in d
DictHas(d, key) == \E i \in DOMAIN d.v : d.v[i][1] = key

\* d[key], for a key of d
DictAt(d, key) == d.v[CHOOSE i \in DOMAIN d.v : d.v[i][1] = key][2]

\* d.get(key, default)
DictGet(d, key, default) == IF DictHas(d, key) THEN DictAt(d, key) ELSE default

\* d[key] = value: a key already held keeps its place
DictSet(d, key, value) ==
    IF DictHas(d, key)
    THEN Dict([i \in DOMAIN d.v |->
                  IF d.v[i][1] = key THEN <<key, value>> ELSE d.v[i]])
    ELSE Dict(Append(d.v, <<key, value>>))

\* dict(pairs)
RECURSIVE DictFromPairs(_)
DictFromPairs(pairs) ==
    IF pairs = <<>> THEN Dict(<<>>)
    ELSE DictSet(DictFromPairs(SubSeq(pairs, 1, Len(pairs) - 1)),
                 pairs[Len(pairs)][1], pairs[Len(pairs)][2])

\* The tokens of a JSON text
Punct(c) == [k |-> "punct", s |-> <<c>>]
StringToken(s) == [k |-> "string", s |-> s]
NumberToken(n) == [k |-> "number", s |-> n]
NullToken == [k |-> "null", s |-> <<>>]

IsPunct(tok, c) == tok.k = "punct" /\ tok.s = <<c>>

RECURSIVE JoinTokens(_, _)
JoinTokens(parts, sep) ==
    IF parts = <<>> THEN <<>>
    ELSE IF Len(parts) = 1 THEN parts[1]
    ELSE parts[1] \o <<sep>> \o JoinTokens(Tail(parts), sep)

\* json.dump(x, f, indent=2, ensure_ascii=False): the tokens written.  The
\* members of an object are written in the order of the dict.
RECURSIVE json_dump(_)
json_dump(x) ==
    CASE x.t = "str"  -> <<StringToken(x.v)>>
      [] x.t = "int"  -> <<NumberToken(x.v)>>
      [] x.t = "none" -> <<NullToken>>
      [] x.t = "list" ->
            <<Punct("[")>>
            \o JoinTokens([i \in DOMAIN x.v |-> json_dump(x.v[i])], Punct(","))
            \o <<Punct("]")>>
      [] x.t = "dict" ->
            <<Punct("{")>>
            \o JoinTokens([i \in DOMAIN x.v |->
                              <<StringToken(x.v[i][1]), Punct(":")>>
                              \o json_dump(x.v[i][2])],
                          Punct(","))
            \o <<Punct("}")>>

\* The parser of json.load: the value that starts at token i and the
\* position behind it, or a failure
ParseFail == [ok |-> FALSE, v |-> None, next |-> 0]
Parsed(x, next) == [ok |-> TRUE, v |-> x, next |-> next]

RECURSIVE ParseValue(_, _)
RECURSIVE ParseElements(_, _, _)
RECURSIVE ParseMembers(_, _, _)

ParseValue(toks, i) ==
    IF i > Len(toks) THEN ParseFail
    ELSE CASE toks[i].k = "string" -> Parsed(Str(toks[i].s), i + 1)
           [] toks[i].k = "number" -> Parsed(Num(toks[i].s), i + 1)
           [] toks[i].k = "null"   -> Parsed(None, i + 1)
           [] IsPunct(toks[i], "[") ->
                 IF i + 1 <= Len(toks) /\ IsPunct(toks[i + 1], "]")
                 THEN Parsed(List(<<>>), i + 2)
                 ELSE ParseElements(toks, i + 1, <<>>)
           [] IsPunct(toks[i], "{") ->
                 IF i + 1 <= Len(toks) /\ IsPunct(toks[i + 1], "}")
                 THEN Parsed(Dict(<<>>), i + 2)
                 ELSE ParseMembers(toks, i + 1, <<>>)
           [] OTHER -> ParseFail

ParseElements(toks, i, acc) ==
    LET r == ParseValue(toks, i)
    IN  IF ~r.ok \/ r.next > Len(toks) THEN ParseFail
        ELSE IF IsPunct(toks[r.next], ",")
             THEN ParseElements(toks, r.next + 1, Append(acc, r.v))
        ELSE IF IsPunct(toks[r.next], "]")
             THEN Parsed(List(Append(acc, r.v)), r.next + 1)
        ELSE ParseFail

ParseMembers(toks, i, acc) ==
    IF i + 1 > Len(toks) \/ toks[i].k # "string" \/ ~IsPunct(toks[i + 1], ":")
    THEN ParseFail
    ELSE LET r == ParseValue(toks, i + 2)
         IN  IF ~r.ok \/ r.next > Len(toks) THEN ParseFail
             ELSE IF IsPunct(toks[r.next], ",")
                  THEN ParseMembers(toks, r.next + 1,
                                    Append(acc, <<toks[i].s, r.v>>))
             ELSE IF IsPunct(toks[r.next], "}")
                  THEN Parsed(DictFromPairs(Append(acc, <<toks[i].s, r.v>>)),
                              r.next + 1)
             ELSE ParseFail

\* json.load(f): the value, or JSONDecodeError
json_load(toks) ==
    LET r == ParseValue(toks, 1)
    IN  IF r.ok /\ r.next = Len(toks) + 1
        THEN Return(r.v)
        ELSE Raise("JSONDecodeError")

(***************************************************************************)
(* DocLearner: the parsers                                                 *)
(***************************************************************************)
\* A variable that holds None or a str
NoneStr == [some |-> FALSE, v |-> <<>>]
SomeStr(s) == [some |-> TRUE, v |-> s]

\* the number of characters at the start of s that are in the set cs
RECURSIVE RunLength(_, _)
RunLength(s, cs) ==
    IF s # <<>> /\ Head(s) \in cs THEN 1 + RunLength(Tail(s), cs) ELSE 0

\* the characters of the model's alphabet that \w matches
WordChars == Range(UpperChars) \cup Range(LowerChars) \cup DigitChars \cup {"_"}

\* s.lstrip(chars)
LStripChars(s, cs) == Suffix(s, RunLength(s, cs))

\* _extract_name: re.match(r'^([\w\-]+)\s*-\s*(.+)', text.strip()), else the
\* first word of the text
_extract_name(text) ==
    LET t      == Strip(text)
        maxrun == RunLength(t, WordChars \cup {"-"})
        \* group 1 may have length k: behind it whitespace, '-', and at
        \* least one more character
        fits(k) == LET rest == LStrip(Suffix(t, k))
                   IN  Len(rest) >= 2 /\ rest[1] = "-"
        ks     == {k \in 1..maxrun : fits(k)}
    IN  IF ks # {}
        THEN Prefix(t, CHOOSE k \in ks : \A j \in ks : j <= k)
        ELSE IF t # <<>> THEN Split(t)[1] ELSE <<>>

OptionRecord(flag, argument, description) ==
    Dict(<< <<<<"f","l","a","g">>, Str(flag)>>,
            <<<<"a","r","g","u","m","e","n","t">>, Str(argument)>>,
            <<<<"d","e","s","c","r","i","p","t","i","o","n">>, Str(description)>> >>)

\* re.match(r'^\s+(-[\w\?]|--[\w\-]+)(?:\s+([\w\[\]_-]+))?\s*(.*)', line):
\* whether it matches, and the three groups
OptMatch(line) ==
    LET w        == RunLength(line, SpaceChars)
        rest     == Suffix(line, w)
        short    == Len(rest) >= 2 /\ rest[1] = "-"
                    /\ rest[2] \in WordChars \cup {"?"}
        long     == Len(rest) >= 3 /\ rest[1] = "-" /\ rest[2] = "-"
                    /\ rest[3] \in WordChars \cup {"-"}
        flag     == IF short THEN Prefix(rest, 2)
                    ELSE Prefix(rest, 2 + RunLength(Suffix(rest, 2),
                                                    WordChars \cup {"-"}))
        after    == Suffix(rest, Len(flag))
        gap      == RunLength(after, SpaceChars)
        argchars == WordChars \cup {"[", "]", "_", "-"}
        arglen   == IF gap >= 1 THEN RunLength(Suffix(after, gap), argchars) ELSE 0
        argument == SubSeq(after, gap + 1, gap + arglen)
        after2   == IF arglen > 0 THEN Suffix(after, gap + arglen) ELSE after
    IN  [matched     |-> w >= 1 /\ (short \/ long),
         flag        |-> flag,
         argument    |-> argument,
         description |-> LStrip(after2)]

\* The loop of _extract_options; cur is current_option, None or a dict
RECURSIVE ExtractOptionsFrom(_, _, _, _)
ExtractOptionsFrom(lines, i, options, cur) ==
    IF i > Len(lines)
    THEN IF cur.some THEN Append(options, cur.v) ELSE options
    ELSE LET line == lines[i]
             m    == OptMatch(line)
         IN  IF m.matched
             THEN ExtractOptionsFrom(
                      lines, i + 1,
                      IF cur.some THEN Append(options, cur.v) ELSE options,
                      [some |-> TRUE,
                       v |-> OptionRecord(m.flag, m.argument, m.description)])
             ELSE IF cur.some /\ Strip(line) # <<>>
                     /\ ~StartsWith(Strip(line), <<"-">>)
             THEN ExtractOptionsFrom(
                      lines, i + 1, options,
                      [some |-> TRUE,
                       v |-> DictSet(cur.v, <<"d","e","s","c","r","i","p","t","i","o","n">>,
                                     Str(DictAt(cur.v, <<"d","e","s","c","r","i","p","t","i","o","n">>).v
                                         \o <<" ">> \o Strip(line)))])
             ELSE ExtractOptionsFrom(lines, i + 1, options, cur)

_extract_options(text) ==
    ExtractOptionsFrom(SplitOn(text, "\n"), 1, <<>>, [some |-> FALSE, v |-> None])

\* The loop of _extract_examples; cur is current_example, a list of lines
RECURSIVE ExtractExamplesFrom(_, _, _, _)
ExtractExamplesFrom(lines, i, examples, cur) ==
    IF i > Len(lines)
    THEN IF cur # <<>> THEN Append(examples, Str(Join(cur, <<"\n">>))) ELSE examples
    ELSE LET line == lines[i]
         IN  IF StartsWith(Strip(line), <<"$">>)
                \/ (StartsWith(line, <<" "," "," "," "," "," "," ">>)
                    /\ ~StartsWith(Strip(line), <<"-">>))
             THEN ExtractExamplesFrom(
                      lines, i + 1,
                      IF cur # <<>> THEN Append(examples, Str(Join(cur, <<"\n">>)))
                      ELSE examples,
                      <<LStripChars(Strip(line), {"$", " "})>>)
             ELSE IF cur # <<>> /\ Strip(line) # <<>>
             THEN ExtractExamplesFrom(lines, i + 1, examples,
                                      Append(cur, Strip(line)))
             ELSE ExtractExamplesFrom(lines, i + 1, examples, cur)

_extract_examples(text) ==
    ExtractExamplesFrom(SplitOn(text, "\n"), 1, <<>>, <<>>)

\* re.match(r'^([A-Z][A-Z\s]+[A-Z])\s*$', line): whether it matches, and
\* group 1
ManHeading(line) ==
    LET g == RStrip(line)
    IN  [matched |-> /\ Len(g) >= 3
                     /\ IsUpper(g[1])
                     /\ IsUpper(g[Len(g)])
                     /\ \A k \in 2..(Len(g) - 1) : IsUpper(g[k]) \/ IsSpace(g[k]),
         name    |-> g]

\* 'if current_section and section_buffer:' of parse_manpage: the section is
\* entered into data["sections"] and routed to its field
SaveManSection(data, current_section, section_buffer) ==
    IF current_section.some /\ current_section.v # <<>> /\ section_buffer # <<>>
    THEN LET section_text == Strip(Join(section_buffer, <<"\n">>))
             d1 == DictSet(data, <<"s","e","c","t","i","o","n","s">>,
                           DictSet(DictAt(data, <<"s","e","c","t","i","o","n","s">>), current_section.v,
                                   Str(section_text)))
         IN  CASE current_section.v = <<"N","A","M","E">> ->
                     DictSet(d1, <<"n","a","m","e">>, Str(_extract_name(section_text)))
               [] current_section.v = <<"D","E","S","C","R","I","P","T","I","O","N">> ->
                     DictSet(d1, <<"d","e","s","c","r","i","p","t","i","o","n">>, Str(section_text))
               [] current_section.v = <<"S","Y","N","O","P","S","I","S">> ->
                     DictSet(d1, <<"s","y","n","o","p","s","i","s">>, Str(section_text))
               [] current_section.v = <<"O","P","T","I","O","N","S">> ->
                     DictSet(d1, <<"o","p","t","i","o","n","s">>, List(_extract_options(section_text)))
               [] current_section.v \in {<<"E","X","A","M","P","L","E","S">>, <<"E","X","A","M","P","L","E">>} ->
                     DictSet(d1, <<"e","x","a","m","p","l","e","s">>, List(_extract_examples(section_text)))
               [] OTHER -> d1
    ELSE data

RECURSIVE ParseManFrom(_, _, _, _, _)
ParseManFrom(lines, i, data, current_section, section_buffer) ==
    IF i > Len(lines)
    THEN SaveManSection(data, current_section, section_buffer)
    ELSE LET m == ManHeading(lines[i])
         IN  IF m.matched
             THEN ParseManFrom(lines, i + 1,
                               SaveManSection(data, current_section, section_buffer),
                               SomeStr(Strip(m.name)), <<>>)
             ELSE ParseManFrom(lines, i + 1, data, current_section,
                               IF current_section.some /\ current_section.v # <<>>
                               THEN Append(section_buffer, lines[i])
                               ELSE section_buffer)

parse_manpage(content) ==
    ParseManFrom(SplitOn(content, "\n"), 1,
                 Dict(<< <<<<"t","y","p","e">>, Str(<<"m","a","n","p","a","g","e">>)>>,
                         <<<<"n","a","m","e">>, Str(<<>>)>>,
                         <<<<"d","e","s","c","r","i","p","t","i","o","n">>, Str(<<>>)>>,
                         <<<<"s","y","n","o","p","s","i","s">>, Str(<<>>)>>,
                         <<<<"o","p","t","i","o","n","s">>, List(<<>>)>>,
                         <<<<"e","x","a","m","p","l","e","s">>, List(<<>>)>>,
                         <<<<"s","e","c","t","i","o","n","s">>, Dict(<<>>)>> >>),
                 NoneStr, <<>>)

CommandPrefixes ==
    {<<"$"," ">>, <<".","/">>, <<"p","y","t","h","o","n">>, <<"n","p","m">>, <<"p","i","p">>, <<"g","i","t">>, <<"d","o","c","k","e","r">>, <<"m","a","k","e">>,
     <<"c","a","r","g","o">>, <<"g","o"," ">>, <<"c","u","r","l">>, <<"w","g","e","t">>}

RECURSIVE ExtractCommandsFrom(_, _, _)
ExtractCommandsFrom(lines, i, commands) ==
    IF i > Len(lines) THEN commands
    ELSE LET line == Strip(lines[i])
         IN  IF /\ line # <<>>
                /\ ~StartsWith(line, <<"#">>)
                /\ \E prefix \in CommandPrefixes : StartsWith(line, prefix)
             THEN ExtractCommandsFrom(
                      lines, i + 1,
                      Append(commands,
                             Dict(<< <<<<"c","o","m","m","a","n","d">>,
                                       Str(Strip(LStripChars(line, {"$", " "})))>>,
                                     <<<<"c","o","n","t","e","x","t">>, Str(<<"e","x","a","m","p","l","e">>)>> >>)))
             ELSE ExtractCommandsFrom(lines, i + 1, commands)

_extract_commands_from_code(code) ==
    ExtractCommandsFrom(SplitOn(code, "\n"), 1, <<>>)

\* The fence that opens and closes a code block
Fence == <<Backquote, Backquote, Backquote>>

\* re.match(r'^#{2,4}\s+(.+)$', line): whether it matches, and group 1
\* stripped
MdHeading(line) ==
    LET h == RunLength(line, {"#"})
    IN  [matched |-> /\ h >= 2
                     /\ h <= 4
                     /\ Len(line) >= h + 2
                     /\ IsSpace(line[h + 1]),
         name    |-> Strip(Suffix(line, h))]

\* 'if current_section and section_buffer:' of parse_markdown
SaveMdSection(sections, current_section, section_buffer) ==
    IF current_section.some /\ current_section.v # <<>> /\ section_buffer # <<>>
    THEN DictSet(sections, current_section.v,
                 Str(Strip(Join(section_buffer, <<"\n">>))))
    ELSE sections

\* The loop of parse_markdown over the lines; st holds the locals and the
\* fields of data that the loop writes
RECURSIVE ParseMdFrom(_, _, _)
ParseMdFrom(lines, i, st) ==
    IF i > Len(lines) THEN st
    ELSE LET line == lines[i]
             st1  == IF StartsWith(line, <<"#"," ">>) /\ st.title = <<>>
                     THEN [st EXCEPT !.title = Strip(Suffix(line, 2))]
                     ELSE st
             m    == MdHeading(line)
         IN  IF m.matched
             THEN ParseMdFrom(lines, i + 1,
                     [st1 EXCEPT
                        !.sections = SaveMdSection(st1.sections, st1.current_section,
                                                   st1.section_buffer),
                        !.current_section = SomeStr(m.name),
                        !.section_buffer = <<>>])
             ELSE IF StartsWith(line, Fence)
             THEN IF st1.in_code_block
                  THEN LET code_content == Join(st1.code_buffer, <<"\n">>)
                       IN  ParseMdFrom(lines, i + 1,
                              [st1 EXCEPT
                                 !.code_blocks =
                                     Append(@, Dict(<< <<<<"l","a","n","g","u","a","g","e">>, Str(st1.code_lang)>>,
                                                       <<<<"c","o","n","t","e","n","t">>, Str(code_content)>> >>)),
                                 !.commands =
                                     IF st1.code_lang \in {<<"b","a","s","h">>, <<"s","h">>, <<"s","h","e","l","l">>, <<>>}
                                     THEN @ \o _extract_commands_from_code(code_content)
                                     ELSE @,
                                 !.in_code_block = FALSE,
                                 !.code_buffer = <<>>,
                                 !.code_lang = <<>>])
                  ELSE ParseMdFrom(lines, i + 1,
                          [st1 EXCEPT !.in_code_block = TRUE,
                                      !.code_lang = Strip(Suffix(line, 3))])
             ELSE IF st1.in_code_block
             THEN ParseMdFrom(lines, i + 1,
                     [st1 EXCEPT !.code_buffer = Append(@, line)])
             ELSE IF st1.current_section.some
             THEN ParseMdFrom(lines, i + 1,
                     [st1 EXCEPT !.section_buffer = Append(@, line)])
             ELSE ParseMdFrom(lines, i + 1, st1)

\* A description that is always the start of the first section
MdDescriptionFirst(sections) ==
    IF sections.v # <<>> THEN Prefix(sections.v[1][2].v, 500) ELSE <<>>

\* 'Extract description from first paragraph or section' of parse_markdown
MdDescription(sections) ==
    IF DictHas(sections, <<"D","e","s","c","r","i","p","t","i","o","n">>) THEN DictAt(sections, <<"D","e","s","c","r","i","p","t","i","o","n">>).v
    ELSE IF DictHas(sections, <<"I","n","t","r","o","d","u","c","t","i","o","n">>) THEN DictAt(sections, <<"I","n","t","r","o","d","u","c","t","i","o","n">>).v
    ELSE IF sections.v # <<>> THEN Prefix(sections.v[1][2].v, 500)
    ELSE <<>>

parse_markdown(content, source) ==
    LET st == ParseMdFrom(SplitOn(content, "\n"), 1,
                  [title |-> <<>>, sections |-> Dict(<<>>), commands |-> <<>>,
                   code_blocks |-> <<>>, current_section |-> NoneStr,
                   section_buffer |-> <<>>, in_code_block |-> FALSE,
                   code_buffer |-> <<>>, code_lang |-> <<>>])
        sections == SaveMdSection(st.sections, st.current_section, st.section_buffer)
    IN  Dict(<< <<<<"t","y","p","e">>, Str(<<"m","a","r","k","d","o","w","n">>)>>,
                <<<<"s","o","u","r","c","e">>, Str(source)>>,
                <<<<"t","i","t","l","e">>, Str(st.title)>>,
                <<<<"d","e","s","c","r","i","p","t","i","o","n">>, Str(MdDescription(sections))>>,
                <<<<"s","e","c","t","i","o","n","s">>, sections>>,
                <<<<"c","o","m","m","a","n","d","s">>, List(st.commands)>>,
                <<<<"c","o","d","e","_","b","l","o","c","k","s">>, List(st.code_blocks)>> >>)

(***************************************************************************)
(* DocLearner: fetch, learn, store, show                                   *)
(***************************************************************************)
\* What the world answers to one fetch: kind is "ok" (the URL, the man page
\* or the file is read and body is its text), "fallback_ok" (the first man
\* run fails and 'man -P cat' succeeds), "nonzero" (both man runs fail),
\* "TimeoutExpired", "FileNotFoundError" (no man tool), "URLError", or
\* "missing" (no such file)
_fetch_url(url, env) ==
    IF env.kind = "URLError" THEN Raise("RuntimeError") ELSE Return(env.body)

_fetch_manpage(command, env) ==
    IF env.kind \in {"nonzero", "TimeoutExpired", "FileNotFoundError"}
    THEN Raise("RuntimeError")
    ELSE Return(env.body)

_fetch_file(filepath, env) ==
    IF env.kind = "missing" THEN Raise("FileNotFoundError") ELSE Return(env.body)

\* (content, source_type), or the exception of the fetch
fetch_content(source, env) ==
    LET with(r, source_type) ==
            IF r.raised THEN r ELSE Return(<<r.value, source_type>>)
    IN  IF StartsWith(source, <<"h","t","t","p",":","/","/">>) \/ StartsWith(source, <<"h","t","t","p","s",":","/","/">>)
        THEN with(_fetch_url(source, env), <<"u","r","l">>)
        ELSE IF StartsWith(source, <<"m","a","n",":">>)
        THEN with(_fetch_manpage(Suffix(source, 4), env), <<"m","a","n","p","a","g","e">>)
        ELSE with(_fetch_file(source, env), <<"f","i","l","e">>)

\* the last position of character c in s, 0 when there is none
LastIndexOf(s, c) ==
    LET at == {i \in DOMAIN s : s[i] = c}
    IN  IF at = {} THEN 0 ELSE CHOOSE i \in at : \A j \in at : j <= i

\* the first position of a character of cs in s, Len(s) + 1 when there is none
FirstIndexIn(s, cs) == RunLength(s, Range(s) \ cs) + 1

\* Path(p).stem: the last component that is neither empty nor '.', without
\* its last suffix
PathStem(p) ==
    LET parts == SelectSeq(SplitOn(p, "/"), LAMBDA c : c # <<>> /\ c # <<".">>)
        name  == IF parts = <<>> THEN <<>> ELSE parts[Len(parts)]
        dot   == LastIndexOf(name, ".")
    IN  IF dot > 1 /\ dot < Len(name) THEN Prefix(name, dot - 1) ELSE name

\* urlparse(url).path for an http or https URL: what follows the host, up to
\* the fragment, the query and the parameters of the last segment
UrlPath(url) ==
    LET rest    == Suffix(url, IF StartsWith(url, <<"h","t","t","p","s",":","/","/">>) THEN 8 ELSE 7)
        tail    == Suffix(rest, FirstIndexIn(rest, {"/", "?", "#"}) - 1)
        nofrag  == Prefix(tail, FirstIndexIn(tail, {"#"}) - 1)
        noquery == Prefix(nofrag, FirstIndexIn(nofrag, {"?"}) - 1)
        slash   == LastIndexOf(noquery, "/")
        semi    == FirstIndexIn(Suffix(noquery, slash), {";"})
    IN  Prefix(noquery, slash + semi - 1)

\* re.sub(r'[^\w\-]', '_', name)
Sanitize(name) ==
    [i \in DOMAIN name |->
        IF name[i] \in WordChars \cup {"-"} THEN name[i] ELSE "_"]

\* 'Parse based on source type' of learn
ParseFetched(source, content, source_type) ==
    IF source_type = <<"m","a","n","p","a","g","e">>
    THEN DictSet(parse_manpage(content), <<"r","a","w","_","s","o","u","r","c","e">>, Str(source))
    ELSE IF EndsWith(source, <<".","m","d">>) \/ EndsWith(source, <<".","m","a","r","k","d","o","w","n">>)
    THEN parse_markdown(content, source)
    ELSE IF /\ Contains(Prefix(content, 1000), <<"N","A","M","E">>)
            /\ Contains(Prefix(content, 2000), <<"S","Y","N","O","P","S","I","S">>)
    THEN parse_manpage(content)
    ELSE parse_markdown(content, source)

\* 'Determine storage name' and 'Sanitize name' of learn; name is None or a
\* str
StorageName(source, name, source_type) ==
    Sanitize(IF name.some /\ name.v # <<>> THEN name.v
             ELSE IF source_type = <<"m","a","n","p","a","g","e">> THEN Suffix(source, 4)
             ELSE IF source_type = <<"u","r","l">>
             THEN IF PathStem(UrlPath(source)) # <<>>
                  THEN PathStem(UrlPath(source)) ELSE <<"d","o","c">>
             ELSE PathStem(source))

\* learn after 'content, source_type = self.fetch_content(source)'
LearnFetched(source, name, fetched) ==
    IF fetched.raised THEN fetched
    ELSE Return(DictSet(DictSet(DictSet(
                    ParseFetched(source, fetched.value[1], fetched.value[2]),
                    <<"l","e","a","r","n","e","d","_","f","r","o","m">>, Str(source)),
                    <<"s","o","u","r","c","e","_","t","y","p","e">>, Str(fetched.value[2])),
                    <<"n","a","m","e">>, Str(StorageName(source, name, fetched.value[2]))))

\* learn: the record, or the exception of the fetch
learn(source, name, env) ==
    LearnFetched(source, name, fetch_content(source, env))

\* The store is the set of the *.json files of the memory directory, each
\* with its stem and its text.  store writes the record under its name.
store_keep_existing(files_, data) ==
    LET name == DictGet(data, <<"n","a","m","e">>, Str(<<"u","n","k","n","o","w","n">>)).v
    IN  IF \E f \in files_ : f.stem = name THEN files_
        ELSE files_ \cup {[stem |-> name, text |-> json_dump(data)]}

store(files_, data) ==
    LET name == DictGet(data, <<"n","a","m","e">>, Str(<<"u","n","k","n","o","w","n">>)).v
    IN  {f \in files_ : f.stem # name}
            \cup {[stem |-> name, text |-> json_dump(data)]}

\* The orders in which glob("*.json") can list the files
GlobOrders(files_) ==
    {order \in [1..Cardinality(files_) -> files_] :
        \A i, j \in DOMAIN order : order[i] = order[j] => i = j}

\* the first file of json_files whose stem contains name, case ignored
RECURSIVE PartialMatch(_, _)
PartialMatch(json_files, name) ==
    IF json_files = <<>> THEN <<>>
    ELSE IF Contains(Lower(Head(json_files).stem), Lower(name))
    THEN <<Head(json_files)>>
    ELSE PartialMatch(Tail(json_files), name)

\* A show that looks for a partial match before the file of that name
show_partial_first(json_files, name) ==
    LET partial == PartialMatch(json_files, name)
    IN  IF partial # <<>> THEN json_load(partial[1].text) ELSE Return(None)

\* show: json_files is the store in the order glob lists it
show(json_files, name) ==
    LET exact   == SelectSeq(json_files, LAMBDA f : f.stem = name)
        partial == PartialMatch(json_files, name)
    IN  IF exact # <<>> THEN json_load(exact[1].text)
        ELSE IF partial # <<>> THEN json_load(partial[1].text)
        ELSE Return(None)

(***************************************************************************)
(* load_learned_docs                                                       *)
(***************************************************************************)
LEARNED_DOCS_DIR == <<"/","c","o","n","f","i","g","/","c","l","a","w","d","/","m","e","m","o","r","y","/","l","e","a","r","n","e","d","_","d","o","c","s">>

\* str(json_file)
JsonPath(stem) == LEARNED_DOCS_DIR \o <<"/">> \o stem \o <<".","j","s","o","n">>

DigitSeq == <<"0","1","2","3","4","5","6","7","8","9">>

\* str(n) for n >= 0
RECURSIVE Digits(_)
Digits(n) ==
    IF n < 10 THEN <<DigitSeq[n + 1]>>
    ELSE Digits(n \div 10) \o <<DigitSeq[(n % 10) + 1]>>

\* f"{x}" for the values the inputs hold in formatted places
Format(x) ==
    CASE x.t = "str"  -> x.v
      [] x.t = "int"  -> Digits(x.v)
      [] x.t = "none" -> <<"N","o","n","e">>

\* 'if data.get("description"): searcher.add_document(...)': the units added
\* and whether add_document raised (its _tokenize calls content.lower())
DescriptionUnits(data, doc_name, title, source) ==
    LET description == DictGet(data, <<"d","e","s","c","r","i","p","t","i","o","n">>, None)
    IN  IF ~Truthy(description) THEN [units |-> <<>>, raised |-> FALSE]
        ELSE IF ~IsStr(description) THEN [units |-> <<>>, raised |-> TRUE]
        ELSE [units  |-> <<add_document(doc_name \o <<":","d","e","s","c","r","i","p","t","i","o","n">>, title,
                                        description.v, source, <<"D","e","s","c","r","i","p","t","i","o","n">>)>>,
              raised |-> FALSE]

\* 'for section_name, content in sections.items()'
RECURSIVE SectionUnits(_, _, _, _)
SectionUnits(pairs, doc_name, title, source) ==
    IF pairs = <<>> THEN <<>>
    ELSE LET section_name == Head(pairs)[1]
             content      == Head(pairs)[2]
             rest == SectionUnits(Tail(pairs), doc_name, title, source)
         IN  IF IsStr(content) /\ Strip(content.v) # <<>>
             THEN <<add_document(doc_name \o <<":">> \o section_name, title,
                                 content.v, source, section_name)>> \o rest
             ELSE rest

\* 'for i, block in enumerate(code_blocks)', from block i (0-based) on
RECURSIVE CodeUnitsFrom(_, _, _, _, _)
CodeUnitsFrom(blocks, i, doc_name, title, source) ==
    IF i >= Len(blocks) THEN [units |-> <<>>, raised |-> FALSE]
    ELSE LET block == blocks[i + 1]
             rest  == CodeUnitsFrom(blocks, i + 1, doc_name, title, source)
         IN  IF IsDict(block) /\ Truthy(DictGet(block, <<"c","o","n","t","e","n","t">>, None))
             THEN LET content == DictAt(block, <<"c","o","n","t","e","n","t">>)
                      lang    == DictGet(block, <<"l","a","n","g","u","a","g","e">>, Str(<<>>))
                  IN  IF ~Truthy(lang) /\ ~IsStr(content)
                      THEN [units |-> <<>>, raised |-> TRUE]
                      ELSE LET block_text ==
                                   IF Truthy(lang)
                                   THEN Format(lang) \o <<" ","c","o","d","e"," ","e","x","a","m","p","l","e",":","\n">>
                                            \o Format(content)
                                   ELSE content.v
                           IN  [units  |-> <<add_document(
                                               doc_name \o <<":","c","o","d","e",":">> \o Digits(i),
                                               title, block_text, source,
                                               <<"C","o","d","e"," ","E","x","a","m","p","l","e"," ">> \o Digits(i + 1))>>
                                           \o rest.units,
                                raised |-> rest.raised]
             ELSE rest

\* The try of load_learned_docs from 'sections = data.get(...)' on, after
\* the description has added its units: the units the file adds to the
\* searcher, those added before an exception included
UnitsOfRecord(data, doc_name, title, source, description, sections, code_blocks) ==
    IF description.raised \/ ~IsDict(sections) THEN description.units
    ELSE description.units
           \o SectionUnits(sections.v, doc_name, title, source)
           \o IF IsList(code_blocks)
              THEN CodeUnitsFrom(code_blocks.v, 0, doc_name, title, source).units
              ELSE <<>>

\* The try after 'doc_name = ...; title = ...; source = ...'
LoadNamed(data, doc_name, title, source) ==
    UnitsOfRecord(data, doc_name, title, source,
                  DescriptionUnits(data, doc_name, title, source),
                  DictGet(data, <<"s","e","c","t","i","o","n","s">>, Dict(<<>>)),
                  DictGet(data, <<"c","o","d","e","_","b","l","o","c","k","s">>, List(<<>>)))

\* The try after 'doc_name = data.get("name", json_file.stem)'
LoadData(data, doc_name, stem) ==
    LoadNamed(data, doc_name,
              DictGet(data, <<"t","i","t","l","e">>, Str(doc_name)).v,
              DictGet(data, <<"s","o","u","r","c","e">>, Str(JsonPath(stem))).v)

\* The try after 'data = json.load(f)': text that is no JSON raises
\* JSONDecodeError, a value that is no object has no get
LoadParsed(stem, loaded) ==
    IF loaded.raised \/ ~IsDict(loaded.value) THEN <<>>
    ELSE LoadData(loaded.value,
                  DictGet(loaded.value, <<"n","a","m","e">>, Str(stem)).v, stem)

\* The body of the loop of load_learned_docs for one file: the units it adds
LoadFile(file) == LoadParsed(file.stem, json_load(file.text))

\* Whether the try of load_learned_docs ends in one of its except clauses
\* for this file: text that is no JSON, a value without get, a description
\* add_document cannot tokenize, sections without items, code_blocks that
\* cannot be enumerated, a code block content add_document cannot tokenize
LoadRaises(file) ==
    LET loaded == json_load(file.text)
    IN  IF loaded.raised \/ ~IsDict(loaded.value) THEN TRUE
        ELSE LET data        == loaded.value
                 doc_name    == DictGet(data, <<"n","a","m","e">>, Str(file.stem)).v
                 title       == DictGet(data, <<"t","i","t","l","e">>, Str(doc_name)).v
                 source      == DictGet(data, <<"s","o","u","r","c","e">>, Str(JsonPath(file.stem))).v
                 sections    == DictGet(data, <<"s","e","c","t","i","o","n","s">>, Dict(<<>>))
                 code_blocks == DictGet(data, <<"c","o","d","e","_","b","l","o","c","k","s">>, List(<<>>))
             IN  \/ DescriptionUnits(data, doc_name, title, source).raised
                 \/ ~IsDict(sections)
                 \/ code_blocks.t \in {"int", "none"}
                 \/ /\ IsList(code_blocks)
                    /\ CodeUnitsFrom(code_blocks.v, 0, doc_name, title, source).raised

\* searcher.documents after the loop over json_files
RECURSIVE LoadAll(_)
LoadAll(json_files) ==
    IF json_files = <<>> THEN <<>>
    ELSE LoadFile(Head(json_files)) \o LoadAll(Tail(json_files))

\* A loader that gives up at the first file that fails
RECURSIVE LoadUntilFailure(_)
LoadUntilFailure(json_files) ==
    IF json_files = <<>> THEN <<>>
    ELSE LET loaded == json_load(Head(json_files).text)
         IN  IF loaded.raised \/ ~IsDict(loaded.value) THEN <<>>
             ELSE LoadFile(Head(json_files)) \o LoadUntilFailure(Tail(json_files))

NewSearcher(documents_) ==
    LET built_ == build_index(documents_)
    IN  [documents   |-> documents_,
         vocab       |-> built_.vocab,
         idf         |-> built_.idf,
         doc_vectors |-> built_.doc_vectors]

load_learned_docs_abort(json_files) == NewSearcher(LoadUntilFailure(json_files))

\* The searcher load_learned_docs returns; json_files is the store in the
\* order glob lists it
load_learned_docs(json_files) == NewSearcher(LoadAll(json_files))

(***************************************************************************)
(* State                                                                   *)
(***************************************************************************)
VARIABLES
    documents,    \* SemanticSearcher.documents
    vocab,        \* SemanticSearcher.vocab
    idf,          \* SemanticSearcher.idf
    doc_vectors,  \* SemanticSearcher.doc_vectors
    built,        \* build_index has run on this SemanticSearcher
    pc,           \* where a running build_index stands, "idle" when none runs
    files,        \* the *.json files of the memory directory
    out           \* the operation that ran last, its arguments and its result

vars == <<documents, vocab, idf, doc_vectors, built, pc, files, out>>

index == <<documents, vocab, idf, doc_vectors>>

Self == [documents   |-> documents,
         vocab       |-> vocab,
         idf         |-> idf,
         doc_vectors |-> doc_vectors]

(***************************************************************************)
(* Inputs                                                                  *)
(***************************************************************************)
\* The units add_document is called with
UnitPool ==
    { [doc_id |-> <<"l","s",":","O","P","T","I","O","N","S">>, title |-> <<"l","s">>, content |-> <<"o","p","t"," ","a","l","l">>,
       source |-> <<"m","a","n",":","l","s">>, section_name |-> <<"O","P","T","I","O","N","S">>],
      [doc_id |-> <<"l","s",":","c","o","d","e",":","0">>, title |-> <<"l","s">>, content |-> <<"o","p","t"," ","a","l","l">>,
       source |-> <<"m","a","n",":","l","s">>, section_name |-> <<"C","o","d","e"," ","E","x","a","m","p","l","e"," ","1">>],
      [doc_id |-> <<"c","p",":","d","e","s","c","r","i","p","t","i","o","n">>, title |-> <<"c","p">>, content |-> <<"C","p"," ","a","l","l",","," ","a","l","l","!">>,
       source |-> <<"c","p",".","m","d">>, section_name |-> <<"D","e","s","c","r","i","p","t","i","o","n">>] }

Queries ==
    { <<"h","o","w"," ","o","p","t">>, <<"a","l","l">>, <<"a","l","l"," ","z","z"," ","z","z"," ","z","z"," ","z","z"," ","z","z"," ","z","z"," ","z","z"," ","z","z"," ","z","z"," ","z","z">>, <<>> }

TopKs == { 0, 2, TOP_K_RESULTS }

\* What the sources hold
CpMarkdown == <<"#"," ","C","p","\n","#","#"," ","d","e","s","c","r","i","p","t","i","o","n","\n","a","l","l"," ","o","p","t","\n">> \o Fence \o <<"s","h","\n","$"," ","c","p"," ","a","\n">> \o Fence
LsManpage == <<"N","A","M","E","\n"," "," ","l","s"," ","-"," ","l","i","s","t","\n","O","P","T","I","O","N","S","\n"," "," ","-","a"," "," ","a","l","l">>
CpPage == <<"#","#"," ","U","s","e","\n","o","p","t","\n","#","#"," ","I","n","t","r","o","\n","z","z">>

\* The learn commands: the source, the --name option, and what the world
\* answers to the fetch
LearnInputs ==
    { [source |-> <<"c","p",".","m","d">>, name |-> NoneStr,
       env |-> [kind |-> "ok", body |-> CpMarkdown]],
      [source |-> <<"c","p",".","m","d">>, name |-> SomeStr(<<"c","p"," ","2">>),
       env |-> [kind |-> "ok", body |-> CpMarkdown]],
      [source |-> <<"m","a","n",":","l","s">>, name |-> NoneStr,
       env |-> [kind |-> "fallback_ok", body |-> LsManpage]],
      [source |-> <<"h","t","t","p",":","/","/","h","/","c","p",".","h","t","m","l">>, name |-> NoneStr,
       env |-> [kind |-> "ok", body |-> CpPage]],
      [source |-> <<"h","t","t","p",":","/","/","h","/","c","p",".","h","t","m","l">>, name |-> NoneStr,
       env |-> [kind |-> "URLError", body |-> <<>>]],
      [source |-> <<"m","a","n",":","z","z">>, name |-> NoneStr,
       env |-> [kind |-> "nonzero", body |-> <<>>]],
      [source |-> <<"m","a","n",":","z","z">>, name |-> NoneStr,
       env |-> [kind |-> "TimeoutExpired", body |-> <<>>]],
      [source |-> <<"m","a","n",":","z","z">>, name |-> NoneStr,
       env |-> [kind |-> "FileNotFoundError", body |-> <<>>]],
      [source |-> <<"n","o",".","m","d">>, name |-> NoneStr,
       env |-> [kind |-> "missing", body |-> <<>>]] }

\* Files that learn did not write: text that is no JSON, JSON that is no
\* object, a record whose sections are a list, a record whose description
\* is a number
BadJson == [stem |-> <<"b","a","d">>, text |-> <<Punct("{"), StringToken(<<"n","a","m","e">>)>>]
ListJson == [stem |-> <<"l","i","s","t">>, text |-> json_dump(List(<<Str(<<"a","l","l">>)>>))]
HalfRecord ==
    [stem |-> <<"h","a","l","f">>,
     text |-> json_dump(Dict(<< <<<<"n","a","m","e">>, Str(<<"h","a","l","f">>)>>,
                                <<<<"d","e","s","c","r","i","p","t","i","o","n">>, Str(<<"a","l","l"," ","o","p","t">>)>>,
                                <<<<"s","e","c","t","i","o","n","s">>, List(<<Str(<<"a","l","l">>)>>)>> >>))]
NumRecord ==
    [stem |-> <<"n","u","m">>,
     text |-> json_dump(Dict(<< <<<<"d","e","s","c","r","i","p","t","i","o","n">>, Num(5)>>,
                                <<<<"s","e","c","t","i","o","n","s">>, Dict(<< <<<<"S">>, Str(<<"a","l","l">>)>> >>)>> >>))]

\* The memory directory when the first command runs
InitialDirs == { {}, {BadJson}, {NumRecord, ListJson}, {BadJson, HalfRecord} }

ShowNames == { <<"c","p">>, <<"C","P">>, <<"l","s">> }

AskQueries == { <<"a","l","l">>, <<"h","o","w"," ","o","p","t">> }

(***************************************************************************)
(* Actions                                                                 *)
(***************************************************************************)
Init ==
    /\ documents = <<>>
    /\ vocab = <<>>
    /\ idf = <<>>
    /\ doc_vectors = <<>>
    /\ built = FALSE
    /\ pc = "idle"
    /\ files = {}
    /\ out = [op |-> "init"]

\* An add_document that puts the unit in front of the others
AddDocumentFirst ==
    \E u \in UnitPool :
        /\ Len(documents) < MaxUnits
        /\ documents' = <<add_document(u.doc_id, u.title, u.content,
                                       u.source, u.section_name)>> \o documents
        /\ out' = [op |-> "add_document"]
        /\ UNCHANGED <<vocab, idf, doc_vectors, built, pc, files>>

AddDocument ==
    \E u \in UnitPool :
        /\ Len(documents) < MaxUnits
        /\ documents' = Append(documents,
                               add_document(u.doc_id, u.title, u.content,
                                            u.source, u.section_name))
        /\ out' = [op |-> "add_document"]
        /\ UNCHANGED <<vocab, idf, doc_vectors, built, pc, files>>

BuildIndex ==
    LET new == build_index(documents)
    IN  /\ idf' = new.idf
        /\ vocab' = new.vocab
        /\ doc_vectors' = new.doc_vectors
        /\ built' = TRUE
        /\ out' = [op |-> "build_index"]
        /\ UNCHANGED <<documents, pc, files>>

\* A search whose _vectorize enters the unknown query terms into self.idf
\* (self.idf.setdefault(term, 1.0))
SearchWritingIdf ==
    \E query \in Queries, top_k \in TopKs :
        /\ out' = [op |-> "search", query |-> query, top_k |-> top_k,
                   result |-> search(Self, query, top_k)]
        /\ idf' = [term \in DOMAIN idf \cup Range(_tokenize(query)) |->
                      IF term \in DOMAIN idf THEN idf[term] ELSE Milli]
        /\ UNCHANGED <<documents, vocab, doc_vectors, built, pc, files>>

Search ==
    \E query \in Queries, top_k \in TopKs :
        /\ out' = [op |-> "search", query |-> query, top_k |-> top_k,
                   result |-> search(Self, query, top_k)]
        /\ UNCHANGED <<index, built, pc, files>>

\* synthesize_answer(query, results) on the query and the list of the search
\* that ran last
Synthesize ==
    /\ out.op = "search"
    /\ out' = [op |-> "synthesize", query |-> out.query, results |-> out.result,
               answer |-> synthesize_answer(out.query, out.result)]
    /\ UNCHANGED <<index, built, pc, files>>

Next ==
    \/ AddDocument
    \/ BuildIndex
    \/ Search
    \/ Synthesize

Spec == Init /\ [][Next]_vars

(***************************************************************************)
(* The commands: claw_learn learn, claw_learn show, claw_ask               *)
(***************************************************************************)
InitStore ==
    /\ documents = <<>>
    /\ vocab = <<>>
    /\ idf = <<>>
    /\ doc_vectors = <<>>
    /\ built = FALSE
    /\ pc = "idle"
    /\ files \in InitialDirs
    /\ out = [op |-> "init"]

\* 'learn' of claw_learn's main: learn, then store unless --dry-run; an
\* exception ends the command with nothing stored.  before is the file the
\* store held under the record's name when the command began.
Learn ==
    \E in \in LearnInputs, dry_run \in BOOLEAN :
        \E data \in {learn(in.source, in.name, in.env)} :
            LET stored == ~data.raised /\ ~dry_run
            IN  /\ files' = IF stored THEN store(files, data.value) ELSE files
                /\ Cardinality(files') <= MaxFiles
                /\ out' = [op |-> "learn", source |-> in.source,
                           name |-> in.name, env |-> in.env.kind,
                           dry_run |-> dry_run, data |-> data,
                           before |-> IF stored
                                      THEN {f \in files :
                                              f.stem = DictAt(data.value, <<"n","a","m","e">>).v}
                                      ELSE {}]
                /\ UNCHANGED <<index, built, pc>>

\* 'show' of claw_learn's main
Show ==
    \E name \in ShowNames, json_files \in GlobOrders(files) :
        /\ out' = [op |-> "show", name |-> name, data |-> show(json_files, name)]
        /\ UNCHANGED <<index, built, pc, files>>

CrossMark == "U+274C"

\* What claw_ask prints when the search returns nothing
NoResultsLines ==
    << <<CrossMark>> \o <<" ","N","o"," ","r","e","l","e","v","a","n","t"," ","d","o","c","u","m","e","n","t","a","t","i","o","n"," ","f","o","u","n","d",".">>,
       <<"\n","T","r","y",":">>,
       <<" "," ">> \o <<Bullet>> \o <<" ","U","s","i","n","g"," ","d","i","f","f","e","r","e","n","t"," ","k","e","y","w","o","r","d","s">>,
       <<" "," ">> \o <<Bullet>> \o <<" ","B","e","i","n","g"," ","m","o","r","e"," ","s","p","e","c","i","f","i","c"," ","a","b","o","u","t"," ","w","h","a","t"," ","y","o","u","'","r","e"," ","l","o","o","k","i","n","g"," ","f","o","r">>,
       <<" "," ">> \o <<Bullet>> \o <<" ","C","h","e","c","k","i","n","g"," ","i","f"," ","t","h","e"," ","d","o","c","u","m","e","n","t","a","t","i","o","n"," ","h","a","s"," ","b","e","e","n"," ","l","e","a","r","n","e","d"," ","y","e","t">> >>

\* claw_ask's main on a memory directory that exists: load_learned_docs,
\* search, and the answer printed.  The searcher is local to the command.
Ask ==
    \E query \in AskQueries, json_files \in GlobOrders(files) :
        \E searcher \in {load_learned_docs(json_files)} :
            \E results \in {search(searcher, query, TOP_K_RESULTS)} :
                /\ out' = [op |-> "ask", query |-> query, json_files |-> json_files,
                           searcher |-> searcher, results |-> results,
                           printed |-> IF results = <<>>
                                       THEN Join(NoResultsLines, <<"\n">>)
                                       ELSE synthesize_answer(query, results).value]
                /\ UNCHANGED <<index, built, pc, files>>

NextStore ==
    \/ Learn
    \/ Show
    \/ Ask

SpecStore == InitStore /\ [][NextStore]_vars

(***************************************************************************)
(* build_index statement by statement, with searches in between            *)
(***************************************************************************)
\* add_document between two runs of build_index
AddBetweenBuilds == pc = "idle" /\ AddDocument

\* 'all_tokens = ...; self._build_vocab(all_tokens)' up to 'self.idf = {...}'
AssignIdf ==
    /\ pc = "idle"
    /\ idf' = build_index(documents).idf
    /\ pc' = "vocab"
    /\ out' = [op |-> "build_index"]
    /\ UNCHANGED <<documents, vocab, doc_vectors, built, files>>

\* 'self.vocab = {...}' of _build_vocab
AssignVocab ==
    /\ pc = "vocab"
    /\ vocab' = build_index(documents).vocab
    /\ pc' = "reset"
    /\ out' = [op |-> "build_index"]
    /\ UNCHANGED <<documents, idf, doc_vectors, built, files>>

\* 'self.doc_vectors = []'
ResetVectors ==
    /\ pc = "reset"
    /\ doc_vectors' = <<>>
    /\ pc' = "loop"
    /\ out' = [op |-> "build_index"]
    /\ UNCHANGED <<documents, vocab, idf, built, files>>

\* One turn of 'for doc in self.documents: ... self.doc_vectors.append(vector)'
AppendVector ==
    /\ pc = "loop"
    /\ Len(doc_vectors) < Len(documents)
    /\ doc_vectors' =
           Append(doc_vectors,
                  _vectorize(idf, _compute_tf(documents[Len(doc_vectors) + 1].tokens)))
    /\ out' = [op |-> "build_index"]
    /\ UNCHANGED <<documents, vocab, idf, built, pc, files>>

\* The loop ends and build_index returns
ReturnFromBuild ==
    /\ pc = "loop"
    /\ Len(doc_vectors) = Len(documents)
    /\ pc' = "idle"
    /\ built' = TRUE
    /\ out' = [op |-> "build_index"]
    /\ UNCHANGED <<index, files>>

\* search(query) between two statements of build_index, or between two runs
SearchMeanwhile ==
    \E query \in Queries :
        /\ out' = [op |-> "search", query |-> query, top_k |-> TOP_K_RESULTS,
                   result |-> search(Self, query, TOP_K_RESULTS)]
        /\ UNCHANGED <<index, built, pc, files>>

NextConc ==
    \/ AddBetweenBuilds
    \/ AssignIdf
    \/ AssignVocab
    \/ ResetVectors
    \/ AppendVector
    \/ ReturnFromBuild
    \/ SearchMeanwhile

SpecConc == Init /\ [][NextConc]_vars

(***************************************************************************)
(* Claims                                                                  *)
(***************************************************************************)
Searched == out.op = "search"

\* C1: search(q, top_k) returns at most top_k pairs, every returned score is
\* >= MIN_SIMILARITY (0.05), and the scores are non-increasing from first
\* to last.
C1_SearchBounded ==
    Searched =>
        /\ Len(out.result) <= out.top_k
        /\ \A i \in DOMAIN out.result : out.result[i].score >= MIN_SIMILARITY
        /\ \A i, j \in DOMAIN out.result :
               i < j => out.result[i].score >= out.result[j].score

\* The final score search gives unit i for a query
FinalScore(query, i) ==
    Boosted(_cosine_similarity(
                _vectorize(idf, _compute_tf(_tokenize(query))), doc_vectors[i]),
            documents[i], Range(Split(Lower(query))) \ stop_words, Lower(query))

\* A search with top_k = 2 that returned two units of different scores and
\* cut off a third unit that passed the threshold.
C1_Witness ==
    /\ Searched
    /\ out.top_k = 2
    /\ Len(out.result) = 2
    /\ out.result[1].score > out.result[2].score
    /\ Len(search(Self, out.query, TOP_K_RESULTS)) > 2

\* A search that returned a unit and dropped a unit of positive score below
\* the threshold.
C1_WitnessBelowThreshold ==
    /\ Searched
    /\ out.top_k = 2
    /\ Len(out.result) = 1
    /\ \E i \in DOMAIN doc_vectors :
          FinalScore(out.query, i) > 0 /\ FinalScore(out.query, i) < MIN_SIMILARITY

\* C2: two units of equal final score appear in the result in the order in
\* which they were added to the index.
C2_TiesInInsertionOrder ==
    Searched =>
        \A i, j \in DOMAIN out.result :
            (i < j /\ out.result[i].score = out.result[j].score)
                => out.result[i].pos < out.result[j].pos

\* A truncated result that holds two units of equal score behind a unit of
\* higher score that was added after them.
C2_Witness ==
    /\ Searched
    /\ Len(out.result) = 3
    /\ out.result[2].score = out.result[3].score
    /\ out.result[1].score > out.result[2].score
    /\ out.result[1].pos > out.result[2].pos

\* The index is the one derived from the units held: the terms of idf are
\* the tokens of all units, each weight is ln(N / (df + 1)) + 1 with N the
\* number of units and df the number of units holding the term, and there
\* is one vector per unit, tf * idf on the unit's terms.
DerivedFromUnits ==
    LET N       == Len(documents)
        df(t)   == Cardinality({i \in DOMAIN documents :
                                   t \in Range(documents[i].tokens)})
        tf(i,t) == (Count(documents[i].tokens, t) * Milli)
                       \div Len(documents[i].tokens)
    IN  /\ DOMAIN idf = UNION {Range(documents[i].tokens) : i \in DOMAIN documents}
        /\ DOMAIN vocab = DOMAIN idf
        /\ \A t \in DOMAIN idf : idf[t] = LogMilli(N, df(t) + 1) + Milli
        /\ Len(doc_vectors) = Len(documents)
        /\ \A i \in DOMAIN documents :
              /\ DOMAIN doc_vectors[i] = Range(documents[i].tokens)
              /\ \A t \in DOMAIN doc_vectors[i] :
                    doc_vectors[i][t] = (tf(i, t) * idf[t]) \div Milli

C5_SearchIsPureRead ==
    [][out'.op = "search" =>
          /\ index' = index
          /\ DerivedFromUnits =>
                LET new == build_index(documents)
                IN  out'.result =
                        search([documents   |-> documents,
                                vocab       |-> new.vocab,
                                idf         |-> new.idf,
                                doc_vectors |-> new.doc_vectors],
                               out'.query, out'.top_k)]_vars

\* A search whose query holds a term unknown to the built index returned a
\* unit.
C5_Witness ==
    /\ Searched
    /\ built
    /\ out.query = <<"a","l","l"," ","z","z"," ","z","z"," ","z","z"," ","z","z"," ","z","z"," ","z","z"," ","z","z"," ","z","z"," ","z","z"," ","z","z">>
    /\ out.result # <<>>

\* C6: on zero units build_index gives an empty vocabulary, an empty IDF
\* table and no vectors, search returns an empty list for every query, and
\* synthesize_answer on an empty list returns the fixed message and does
\* not raise.
C6_EmptyCorpus ==
    /\ (documents = <<>> /\ built) =>
          /\ vocab = <<>>
          /\ idf = <<>>
          /\ doc_vectors = <<>>
    /\ (documents = <<>> /\ Searched) => out.result = <<>>
    /\ (out.op = "synthesize" /\ out.results = <<>>) =>
          /\ ~out.answer.raised
          /\ out.answer.value = NoDocsMessage

\* build_index, a search and synthesize_answer have run on zero units.
C6_Witness ==
    /\ documents = <<>>
    /\ built
    /\ out.op = "synthesize"
    /\ out.query = <<"h","o","w"," ","o","p","t">>
    /\ out.results = <<>>
    /\ out.answer.value = NoDocsMessage
\* C4 as stated: a search that runs while build_index runs sees the index
\* of the units held or the index that an earlier build_index left, which
\* is the index of a prefix of the units held; never new idf with old
\* vectors, nor fewer vectors than the build goes on to produce.
C4_SearchSeesWholeIndex ==
    Searched =>
        \E k \in 0..Len(documents) :
            LET whole == build_index(SubSeq(documents, 1, k))
            IN  /\ idf = whole.idf
                /\ vocab = whole.vocab
                /\ doc_vectors = whole.doc_vectors

\* A search has run between 'self.doc_vectors = []' and the end of the loop
\* of a build_index on three units, and has missed a unit the query matches.
C4_Witness ==
    /\ Searched
    /\ pc = "loop"
    /\ Len(documents) = 3
    /\ Len(doc_vectors) = 1
    /\ Len(out.result) = 1
    /\ Len(search(NewSearcher(documents), out.query, TOP_K_RESULTS)) = 3

Asked == out.op = "ask"

\* C7 as stated: after load_learned_docs no two units of the index have the
\* same identifier, and every unit has non-empty content.
C7_UniqueIdsNonEmptyContent ==
    Asked =>
        LET docs == out.searcher.documents
        IN  /\ \A i, j \in DOMAIN docs : docs[i].id = docs[j].id => i = j
            /\ \A i \in DOMAIN docs : docs[i].content # <<>>

\* load_learned_docs has loaded the record learned from cp.md, whose only
\* section is named "description": the description unit and the section
\* unit are both "cp:description".
C7_Witness ==
    /\ Asked
    /\ \E i, j \in DOMAIN out.searcher.documents :
          /\ i < j
          /\ out.searcher.documents[i].id = <<"c","p",":","d","e","s","c","r","i","p","t","i","o","n">>
          /\ out.searcher.documents[j].id = <<"c","p",":","d","e","s","c","r","i","p","t","i","o","n">>
          /\ out.searcher.documents[i].section = <<"D","e","s","c","r","i","p","t","i","o","n">>
          /\ out.searcher.documents[j].section = <<"d","e","s","c","r","i","p","t","i","o","n">>

\* The command that ran last is a learn that stored its record
LearnStored(o) == o.op = "learn" /\ ~o.data.raised /\ ~o.dry_run

\* C8: when learn has parsed a source and stored the record, a show of the
\* record's name that follows returns a record whose sections are the
\* sections of the parse: the same names, in the same order, with the same
\* texts.
C8_LearnShowRoundTrip ==
    [][(/\ LearnStored(out)
        /\ out'.op = "show"
        /\ out'.name = DictAt(out.data.value, <<"n","a","m","e">>).v)
       => /\ ~out'.data.raised
          /\ IsDict(out'.data.value)
          /\ DictHas(out'.data.value, <<"s","e","c","t","i","o","n","s">>)
          /\ DictAt(out'.data.value, <<"s","e","c","t","i","o","n","s">>)
                = DictAt(out.data.value, <<"s","e","c","t","i","o","n","s">>)]_vars

\* show has returned the record learned from man:ls, with its two sections
\* in the order of the page.
C8_Witness ==
    /\ out.op = "show"
    /\ out.name = <<"l","s">>
    /\ ~out.data.raised
    /\ IsDict(out.data.value)
    /\ DictGet(out.data.value, <<"l","e","a","r","n","e","d","_","f","r","o","m">>, None) = Str(<<"m","a","n",":","l","s">>)
    /\ Keys(DictAt(out.data.value, <<"s","e","c","t","i","o","n","s">>).v) = <<<<"N","A","M","E">>, <<"O","P","T","I","O","N","S">>>>
    /\ DictAt(DictAt(out.data.value, <<"s","e","c","t","i","o","n","s">>), <<"O","P","T","I","O","N","S">>) = Str(<<"-","a"," "," ","a","l","l">>)

\* C9: the store never holds two files of one name; a learn that stores
\* leaves under the record's name the record it stored and leaves the files
\* of every other name as they were; no other command changes the store.
C9_LastStoredWins ==
    [][/\ \A f, g \in files' : f.stem = g.stem => f = g
       /\ LearnStored(out') =>
             LET name == DictAt(out'.data.value, <<"n","a","m","e">>).v
             IN  /\ \E f \in files' :
                       /\ f.stem = name
                       /\ json_load(f.text) = Return(out'.data.value)
                 /\ {f \in files' : f.stem # name} = {f \in files : f.stem # name}
       /\ ~LearnStored(out') => files' = files]_vars

\* A learn has replaced the record another source had left under the same
\* name, next to a record of another name.
C9_Witness ==
    /\ LearnStored(out)
    /\ \E old \in out.before :
          /\ old \notin files
          /\ json_load(old.text).value # out.data.value
    /\ \E f \in files : f.stem # DictAt(out.data.value, <<"n","a","m","e">>).v

\* A file that holds a record of the shape learn writes: an object whose
\* description is a str, whose sections map names to strs and whose
\* code_blocks are objects with a str content and a str language
WellFormed(file) ==
    LET loaded == json_load(file.text)
        data   == loaded.value
        str(d, key) == DictHas(d, key) /\ IsStr(DictAt(d, key))
    IN  /\ ~loaded.raised
        /\ IsDict(data)
        /\ str(data, <<"n","a","m","e">>)
        /\ str(data, <<"d","e","s","c","r","i","p","t","i","o","n">>)
        /\ DictHas(data, <<"s","e","c","t","i","o","n","s">>)
        /\ IsDict(DictAt(data, <<"s","e","c","t","i","o","n","s">>))
        /\ \A i \in DOMAIN DictAt(data, <<"s","e","c","t","i","o","n","s">>).v :
              IsStr(DictAt(data, <<"s","e","c","t","i","o","n","s">>).v[i][2])
        /\ DictHas(data, <<"c","o","d","e","_","b","l","o","c","k","s">>) =>
              /\ IsList(DictAt(data, <<"c","o","d","e","_","b","l","o","c","k","s">>))
              /\ \A i \in DOMAIN DictAt(data, <<"c","o","d","e","_","b","l","o","c","k","s">>).v :
                    LET block == DictAt(data, <<"c","o","d","e","_","b","l","o","c","k","s">>).v[i]
                    IN  IsDict(block) /\ str(block, <<"c","o","n","t","e","n","t">>)
                                      /\ str(block, <<"l","a","n","g","u","a","g","e">>)

\* The units of a well-formed record: its description, each section that is
\* not blank, each code block with content
UnitsOf(file) ==
    LET data     == json_load(file.text).value
        name     == DictAt(data, <<"n","a","m","e">>).v
        sections == DictAt(data, <<"s","e","c","t","i","o","n","s">>).v
        blocks   == DictGet(data, <<"c","o","d","e","_","b","l","o","c","k","s">>, List(<<>>)).v
    IN  (IF DictAt(data, <<"d","e","s","c","r","i","p","t","i","o","n">>).v # <<>>
         THEN {[id      |-> name \o <<":","d","e","s","c","r","i","p","t","i","o","n">>,
                content |-> DictAt(data, <<"d","e","s","c","r","i","p","t","i","o","n">>).v]}
         ELSE {})
        \cup {[id |-> name \o <<":">> \o sections[i][1], content |-> sections[i][2].v] :
                 i \in {k \in DOMAIN sections : Strip(sections[k][2].v) # <<>>}}
        \cup {[id |-> name \o <<":","c","o","d","e",":">> \o Digits(i - 1),
               content |-> IF DictAt(blocks[i], <<"l","a","n","g","u","a","g","e">>).v = <<>>
                           THEN DictAt(blocks[i], <<"c","o","n","t","e","n","t">>).v
                           ELSE DictAt(blocks[i], <<"l","a","n","g","u","a","g","e">>).v
                                    \o <<" ","c","o","d","e"," ","e","x","a","m","p","l","e",":","\n">>
                                    \o DictAt(blocks[i], <<"c","o","n","t","e","n","t">>).v] :
                 i \in {k \in DOMAIN blocks : DictAt(blocks[k], <<"c","o","n","t","e","n","t">>).v # <<>>}}

\* C10: whatever files that are no records the store holds, and wherever
\* glob lists them, load_learned_docs returns a searcher whose index is
\* built and that holds every unit of every well-formed record.
C10_BadRecordsDoNotBlock ==
    Asked =>
        /\ Len(out.searcher.doc_vectors) = Len(out.searcher.documents)
        /\ \A k \in DOMAIN out.json_files :
              WellFormed(out.json_files[k]) =>
                  \A u \in UnitsOf(out.json_files[k]) :
                      \E i \in DOMAIN out.searcher.documents :
                          /\ out.searcher.documents[i].id = u.id
                          /\ out.searcher.documents[i].content = u.content

\* load_learned_docs has met a file that is no JSON before, and a record
\* with a list for sections after, the record learned from man:ls, and has
\* indexed both sections of that record.
C10_Witness ==
    /\ Asked
    /\ Len(out.json_files) = 3
    /\ ~WellFormed(out.json_files[1])
    /\ json_load(out.json_files[1].text).raised
    /\ WellFormed(out.json_files[2])
    /\ Cardinality(UnitsOf(out.json_files[2])) = 2
    /\ ~WellFormed(out.json_files[3])
    /\ \E i \in DOMAIN out.searcher.documents :
          out.searcher.documents[i].id = <<"l","s",":","O","P","T","I","O","N","S">>

\* The units of the files whose load ends without an exception, in load order
RECURSIVE UnitsOfLoaded(_)
UnitsOfLoaded(json_files) ==
    IF json_files = <<>> THEN <<>>
    ELSE (IF LoadRaises(Head(json_files)) THEN <<>> ELSE LoadFile(Head(json_files)))
             \o UnitsOfLoaded(Tail(json_files))

\* C11 as stated: a record whose load fails contributes no unit; the
\* documents of the searcher are the units of the records that loaded
\* without an exception, and nothing else.
C11_FailedRecordsContributeNothing ==
    Asked => out.searcher.documents = UnitsOfLoaded(out.json_files)

\* load_learned_docs has loaded a record whose sections are a list: the
\* description unit was added before sections.items() raised, and it is in
\* the index the search ran on.
C11_Witness ==
    /\ Asked
    /\ \E i \in DOMAIN out.json_files :
          /\ out.json_files[i].stem = <<"h","a","l","f">>
          /\ LoadRaises(out.json_files[i])
          /\ ~json_load(out.json_files[i].text).raised
    /\ \E i \in DOMAIN out.searcher.documents :
          /\ out.searcher.documents[i].id = <<"h","a","l","f",":","d","e","s","c","r","i","p","t","i","o","n">>
          /\ out.searcher.documents[i].content = <<"a","l","l"," ","o","p","t">>

\* The outcomes of a fetch that the error taxonomy calls not-found (no such
\* man page, no such file) and fetch failure (URL error, man timeout, no man
\* tool)
NotFoundKinds == {"nonzero", "missing"}
FetchFailureKinds == {"URLError", "TimeoutExpired", "FileNotFoundError"}

LearnFailed(o) == o.op = "learn" /\ o.data.raised

\* C12 as stated: a learn that cannot obtain its source stores nothing, and
\* of two learn commands in a row that fail, one as not-found and the other
\* as a fetch failure, the exceptions are of different classes.
C12_NotFoundVsFetchFailure ==
    [][LearnFailed(out') =>
          /\ files' = files
          /\ (/\ LearnFailed(out)
              /\ \/ out.env \in NotFoundKinds /\ out'.env \in FetchFailureKinds
                 \/ out.env \in FetchFailureKinds /\ out'.env \in NotFoundKinds)
                => out.data.error # out'.data.error]_vars

\* learn of 'man:zz' has failed because both man runs returned non-zero: the
\* page does not exist, and the exception is a RuntimeError, the class that
\* a URL error raises too.
C12_Witness ==
    /\ LearnFailed(out)
    /\ out.source = <<"m","a","n",":","z","z">>
    /\ out.env = "nonzero"
    /\ out.data.error = "RuntimeError"
    /\ _fetch_url(<<"h","t","t","p",":","/","/","h","/","c","p",".","h","t","m","l">>, [kind |-> "URLError", body |-> <<>>]).error = "RuntimeError"

(***************************************************************************)
(* The parsers on their own: parse_markdown, parse_manpage, the choice of  *)
(* parser in learn                                                         *)
(***************************************************************************)
\* The sequences over S of length up to n
SeqsUpTo(S, n) == UNION {[1..k -> S] : k \in 0..n}

\* Lines a markdown source is made of
MdLinePool == {<<"#","#"," ","D","e","s","c","r","i","p","t","i","o","n">>, <<"#","#"," ","I","n","t","r","o","d","u","c","t","i","o","n">>, <<"#","#"," ","U","s","e">>, <<"a","l","l"," ","o","p","t">>, <<"z","z">>}

\* The markdown source of the ingest scenario, and the same with blank lines
\* around the code block
WidgetMarkdown ==
    <<"#"," ","W","i","d","g","e","t","\n","#","#"," ","D","e","s","c","r","i","p","t","i","o","n","\n","W","i","d","g","e","t"," ","i","s"," ","a"," ","t","o","o","l"," ","f","o","r"," ","X","\n">> \o Fence \o <<"b","a","s","h","\n","w","i","d","g","e","t"," ","-","-","i","n","i","t","\n">> \o Fence
WidgetSources ==
    { WidgetMarkdown,
      <<"#"," ","W","i","d","g","e","t","\n","\n","#","#"," ","D","e","s","c","r","i","p","t","i","o","n","\n","\n","W","i","d","g","e","t"," ","i","s"," ","a"," ","t","o","o","l"," ","f","o","r"," ","X","\n","\n">> \o Fence \o <<"b","a","s","h","\n","w","i","d","g","e","t"," ","-","-","i","n","i","t","\n">> \o Fence \o <<"\n">> }

\* A section text of more than 500 characters
LongText == [i \in 1..(500 + 20) |-> IF i > 500 THEN "b" ELSE "a"]
LongMarkdown == <<"#","#"," ","U","s","e","\n">> \o LongText \o <<"\n","#","#"," ","D","e","s","c","r","i","p","t","i","o","n">>

\* Lines of a markdown source with fenced code: the two fences, and a title
\* line, a heading line and a command that stand inside or outside of them
FencedLinePool == {Fence \o <<"b","a","s","h">>, Fence, <<"#"," ","T">>, <<"#","#"," ","S","e","c">>, <<"w"," ","-","v">>}

MdSources ==
    {Join(lines, <<"\n">>) : lines \in SeqsUpTo(MdLinePool, MaxMdLines)}
        \cup {Join(lines, <<"\n">>) : lines \in SeqsUpTo(FencedLinePool, MaxMdLines)}
        \cup WidgetSources \cup {LongMarkdown}

\* Lines a reference page is made of
VerboseLine == <<" "," "," "," "," "," "," ","-","v",","," ","-","-","v","e","r","b","o","s","e"," "," "," ","E","n","a","b","l","e"," ","v","e","r","b","o","s","e"," ","o","u","t","p","u","t">>
ManLinePool ==
    {<<"N","A","M","E">>, <<"w"," ","-"," ","x">>, <<"O","P","T","I","O","N","S">>, VerboseLine, <<" "," "," "," "," "," "," "," "," "," "," ","m","o","r","e"," ","t","e","x","t">>, <<" "," "," "," "," "," "," ","-","q"," "," ","q","u","i","e","t">>}

ManSources == {Join(lines, <<"\n">>) : lines \in SeqsUpTo(ManLinePool, MaxManLines)}

\* What a source given to learn holds: a reference page, markdown, a page
\* with NAME but no SYNOPSIS, markdown that names FILENAME and SYNOPSIS in
\* its text, and a reference page whose NAME heading comes after more than
\* 1000 characters
ManContent == <<"N","A","M","E","\n","w"," ","-"," ","x","\n","S","Y","N","O","P","S","I","S","\n","w"," ","[","-","v","]">>
MdContent == <<"#"," ","W","\n","#","#"," ","U","s","e","\n","z","z">>
NameOnlyContent == <<"N","A","M","E","\n","w"," ","-"," ","x">>
InlineContent == <<"#","#"," ","U","s","e","\n","F","I","L","E","N","A","M","E"," ","a","n","d"," ","S","Y","N","O","P","S","I","S">>
LateNameContent == [i \in 1..(1000 + 100) |-> "a"] \o <<"\n">> \o ManContent
SourceContents ==
    {ManContent, MdContent, NameOnlyContent, InlineContent, LateNameContent}
SourceNames == {<<"w",".","m","d">>, <<"w",".","m","a","r","k","d","o","w","n">>, <<"w",".","t","x","t">>, <<"h","t","t","p",":","/","/","h","/","w">>, <<"m","a","n",":","w">>}

\* The texts _tokenize is given: every text of up to MaxTextLen characters
\* over a small alphabet, and one longer text
TextChars == {"A", "b", "1", ".", " ", "!"}
LongerText == <<"A","b","-","1"," ","2","2"," ","a","b","-","1"," ","x","!","Y","_","z","."," ","3",".","5","\t","a","b","-","1">>
Texts == SeqsUpTo(TextChars, MaxTextLen) \cup {LongerText}

\* Sentences a content is made of, and the contents: up to MaxSentences of
\* them behind one another, a space or a line break between two
SentencePool == {<<"A","b"," ","b",".">>, <<"z","z",".">>, <<"A","A","A","A","A","A","A","A","A","A"," ","b","!">>, <<"b","1"," ","z","z","?">>}
SnippetContents ==
    {Join(ss, <<" ">>) : ss \in SeqsUpTo(SentencePool, MaxSentences) \ {<<>>}}
        \cup {<<>>, <<"z","z",".","\n","\n","A","b"," ","b","."," "," ","b","1"," ","z","z","?">>, <<"n","o"," ","s","t","o","p"," ","h","e","r","e"," ","b"," ","a","n","d"," ","o","n">>}
SnippetQueries == {<<"b">>, <<"B"," ","z","z">>, <<"q">>}
SnippetBudgets == {4, 9, 14}

\* Lines an EXAMPLES section is made of: a prompt line, an indented line, an
\* indented option line, plain text and the blank line
ExampleLinePool ==
    {<<"$"," ","w"," ","-","v">>, <<" "," "," "," "," "," "," ","w"," ","-","q">>, <<" "," "," "," "," "," "," ","-","x"," ","f","l","a","g">>, <<"r","u","n","s"," ","w">>, <<"n","o","t","e"," ","t","e","x","t">>, <<>>}
ExampleTexts ==
    {Join(lines, <<"\n">>) : lines \in SeqsUpTo(ExampleLinePool, MaxExampleLines)}

\* One run of a parser: the source is given, nothing is stored
InitParse ==
    /\ documents = <<>>
    /\ vocab = <<>>
    /\ idf = <<>>
    /\ doc_vectors = <<>>
    /\ built = FALSE
    /\ pc = "idle"
    /\ files = {}
    /\ out \in {[op |-> "markdown", content |-> c] : c \in MdSources}
               \cup {[op |-> "manpage", content |-> c] : c \in ManSources}
               \cup {[op |-> "text", text |-> t] : t \in Texts}
               \cup {[op |-> "source", source |-> n, content |-> c] :
                         n \in SourceNames, c \in SourceContents}
               \cup {[op |-> "section", text |-> t] : t \in ExampleTexts}
               \cup {[op |-> "content", content |-> c, query |-> q, max_chars |-> m] :
                         c \in SnippetContents, q \in SnippetQueries,
                         m \in SnippetBudgets}

\* parse_markdown on a markdown source
ParseMarkdown ==
    /\ out.op = "markdown"
    /\ \E data \in {parse_markdown(out.content, <<"w",".","m","d">>)} :
          out' = [op |-> "parse_markdown", content |-> out.content, data |-> data]
    /\ UNCHANGED <<index, built, pc, files>>

\* parse_manpage on the text of a reference page
ParseManpage ==
    /\ out.op = "manpage"
    /\ \E data \in {parse_manpage(out.content)} :
          out' = [op |-> "parse_manpage", content |-> out.content, data |-> data]
    /\ UNCHANGED <<index, built, pc, files>>

\* learn on a source whose fetch succeeds
LearnSource ==
    /\ out.op = "source"
    /\ \E data \in {learn(out.source, NoneStr, [kind |-> "ok", body |-> out.content])} :
          out' = [op |-> "learned", source |-> out.source, content |-> out.content,
                  data |-> data]
    /\ UNCHANGED <<index, built, pc, files>>

\* _tokenize on a text
Tokenize ==
    /\ out.op = "text"
    /\ out' = [op |-> "tokens", text |-> out.text, tokens |-> _tokenize(out.text)]
    /\ UNCHANGED <<index, built, pc, files>>

\* extract_relevant_snippet on a content, a query and a budget
ExtractSnippet ==
    /\ out.op = "content"
    /\ \E run \in {SnippetRun(out.content, out.query, out.max_chars)} :
          out' = [op |-> "snippet", content |-> out.content, query |-> out.query,
                  max_chars |-> out.max_chars, snippet |-> run.snippet,
                  run |-> run]
    /\ UNCHANGED <<index, built, pc, files>>

\* _extract_examples on the text of a section
ExtractExamples ==
    /\ out.op = "section"
    /\ out' = [op |-> "examples", text |-> out.text,
               examples |-> _extract_examples(out.text)]
    /\ UNCHANGED <<index, built, pc, files>>

NextParse ==
    \/ ParseMarkdown
    \/ ParseManpage
    \/ LearnSource
    \/ Tokenize
    \/ ExtractSnippet
    \/ ExtractExamples

SpecParse == InitParse /\ [][NextParse]_vars

ParsedMarkdown == out.op = "parse_markdown"

\* C13 as stated: parsing the markdown source with '# Widget', a
\* '## Description' section and a fenced bash block whose only line is
\* 'widget --init' yields exactly one command record, with the command
\* 'widget --init'.
C13_WidgetCommandExtracted ==
    (ParsedMarkdown /\ out.content \in WidgetSources) =>
        LET commands == DictAt(out.data, <<"c","o","m","m","a","n","d","s">>).v
        IN  /\ Len(commands) = 1
            /\ DictAt(commands[1], <<"c","o","m","m","a","n","d">>) = Str(<<"w","i","d","g","e","t"," ","-","-","i","n","i","t">>)

\* parse_markdown has parsed the scenario's source: the title and the code
\* block are found, and no command is extracted because 'widget --init'
\* starts with none of the prefixes _extract_commands_from_code knows.
C13_Witness ==
    /\ ParsedMarkdown
    /\ out.content = WidgetMarkdown
    /\ DictAt(out.data, <<"t","i","t","l","e">>) = Str(<<"W","i","d","g","e","t">>)
    /\ DictAt(out.data, <<"c","o","d","e","_","b","l","o","c","k","s">>) =
           List(<<Dict(<< <<<<"l","a","n","g","u","a","g","e">>, Str(<<"b","a","s","h">>)>>,
                          <<<<"c","o","n","t","e","n","t">>, Str(<<"w","i","d","g","e","t"," ","-","-","i","n","i","t">>)>> >>)>>)
    /\ DictAt(out.data, <<"c","o","m","m","a","n","d","s">>) = List(<<>>)
    /\ _extract_commands_from_code(<<"$"," ","w","i","d","g","e","t"," ","-","-","i","n","i","t">>) # <<>>

C14_WitnessDescriptionSecond ==
    /\ ParsedMarkdown
    /\ out.content = <<"#","#"," ","I","n","t","r","o","d","u","c","t","i","o","n","\n","z","z","\n","#","#"," ","D","e","s","c","r","i","p","t","i","o","n","\n","a","l","l"," ","o","p","t">>
    /\ DictAt(out.data, <<"d","e","s","c","r","i","p","t","i","o","n">>) = Str(<<"a","l","l"," ","o","p","t">>)

ParsedManpage == out.op = "parse_manpage"

\* The lines of the source that stand in its OPTIONS section: behind an
\* OPTIONS heading with no other heading in between
OptionsLines(lines) ==
    {j \in DOMAIN lines :
        \E i \in 1..(j - 1) :
            /\ lines[i] = <<"O","P","T","I","O","N","S">>
            /\ \A k \in (i + 1)..j : ~ManHeading(lines[k]).matched}

\* C15 as stated: when the OPTIONS section of a reference page holds the
\* line '       -v, --verbose   Enable verbose output' (once, under the one
\* OPTIONS heading of the page), parse_manpage returns exactly one option
\* record with flag '-v', wherever the line stands in the section.
C15_VerboseOptionFound ==
    ParsedManpage =>
        LET lines   == SplitOn(out.content, "\n")
            verbose == {j \in OptionsLines(lines) : lines[j] = VerboseLine}
            options == DictAt(out.data, <<"o","p","t","i","o","n","s">>).v
        IN  (/\ Cardinality(verbose) = 1
             /\ Cardinality({i \in DOMAIN lines : lines[i] = <<"O","P","T","I","O","N","S">>}) = 1)
                => Cardinality({i \in DOMAIN options :
                                   DictAt(options[i], <<"f","l","a","g">>) = Str(<<"-","v">>)}) = 1

\* parse_manpage has parsed a page whose OPTIONS section starts with the
\* verbose line and goes on with a continuation line: the section text is
\* stripped before _extract_options sees it, the line has lost its
\* indentation and no option is found.
C15_Witness ==
    /\ ParsedManpage
    /\ out.content = Join(<<<<"O","P","T","I","O","N","S">>, VerboseLine, <<" "," "," "," "," "," "," "," "," "," "," ","m","o","r","e"," ","t","e","x","t">>>>, <<"\n">>)
    /\ DictAt(DictAt(out.data, <<"s","e","c","t","i","o","n","s">>), <<"O","P","T","I","O","N","S">>) =
           Str(<<"-","v",","," ","-","-","v","e","r","b","o","s","e"," "," "," ","E","n","a","b","l","e"," ","v","e","r","b","o","s","e"," ","o","u","t","p","u","t","\n"," "," "," "," "," "," "," "," "," "," "," ","m","o","r","e"," ","t","e","x","t">>)
    /\ DictAt(out.data, <<"o","p","t","i","o","n","s">>) = List(<<>>)

(***************************************************************************)
(* Searches over the units of one reference page                           *)
(***************************************************************************)
\* Units of the reference page 'w': its OPTIONS section, a NOTES section
\* with the same text, its description and a code block
PageUnits ==
    { [doc_id |-> <<"w",":","O","P","T","I","O","N","S">>, title |-> <<"w">>, content |-> VerboseLine,
       source |-> <<"m","a","n",":","w">>, section_name |-> <<"O","P","T","I","O","N","S">>],
      [doc_id |-> <<"w",":","N","O","T","E","S">>, title |-> <<"w">>, content |-> VerboseLine,
       source |-> <<"m","a","n",":","w">>, section_name |-> <<"N","O","T","E","S">>],
      [doc_id |-> <<"w",":","d","e","s","c","r","i","p","t","i","o","n">>, title |-> <<"w">>, content |-> <<"w"," ","-"," ","v","e","r","b","o","s","e"," ","t","o","o","l">>,
       source |-> <<"m","a","n",":","w">>, section_name |-> <<"D","e","s","c","r","i","p","t","i","o","n">>],
      [doc_id |-> <<"w",":","c","o","d","e",":","0">>, title |-> <<"w">>, content |-> <<"v","e","r","b","o","s","e"," ","w">>,
       source |-> <<"m","a","n",":","w">>, section_name |-> <<"C","o","d","e"," ","E","x","a","m","p","l","e"," ","1">>] }

VerboseQuery == <<"h","o","w"," ","d","o"," ","I"," ","e","n","a","b","l","e"," ","v","e","r","b","o","s","e"," ","o","u","t","p","u","t">>
PageQueries == { VerboseQuery, <<"v","e","r","b","o","s","e"," ","o","p","t","i","o","n","s">>, <<"v","e","r","b","o","s","e"," ","o","p","t"," ","o","p","t","i","o","n","s"," ","w">> }

AddPageUnit ==
    \E u \in PageUnits :
        /\ Len(documents) < MaxUnits
        /\ documents' = Append(documents,
                               add_document(u.doc_id, u.title, u.content,
                                            u.source, u.section_name))
        /\ out' = [op |-> "add_document"]
        /\ UNCHANGED <<vocab, idf, doc_vectors, built, pc, files>>

SearchPage ==
    \E query \in PageQueries, top_k \in TopKs :
        \E result \in {search(Self, query, top_k)} :
            /\ out' = [op |-> "search", query |-> query, top_k |-> top_k,
                       result |-> result]
            /\ UNCHANGED <<index, built, pc, files>>

NextRank ==
    \/ AddPageUnit
    \/ BuildIndex
    \/ SearchPage

SpecRank == Init /\ [][NextRank]_vars

\* The cosine similarity search computes for the unit at position pos
Cosine(query, pos) ==
    _cosine_similarity(_vectorize(idf, _compute_tf(_tokenize(query))),
                       doc_vectors[pos])

\* A section label that no boost of search applies to for the query
Unboosted(query, section) ==
    /\ ~AnyTermIn(Range(Split(Lower(query))) \ stop_words, Lower(section))
    /\ ~Contains(Lower(section), <<"d","e","s","c","r","i","p","t","i","o","n">>)
    /\ ~Contains(Lower(section), <<"o","v","e","r","v","i","e","w">>)
    /\ ~Contains(Lower(section), <<"c","o","d","e">>)

\* C16 as stated: for the query 'how do I enable verbose output' the unit
\* whose section is OPTIONS stands in the result before every unit of the
\* same document that has the same cosine similarity and an unboosted
\* section label.
C16_OptionsRankedAbove ==
    (Searched /\ out.query = VerboseQuery) =>
        \A i, j \in DOMAIN out.result :
            (/\ out.result[i].doc.section = <<"O","P","T","I","O","N","S">>
             /\ out.result[j].doc.section # <<"O","P","T","I","O","N","S">>
             /\ out.result[j].doc.source = out.result[i].doc.source
             /\ Unboosted(out.query, out.result[j].doc.section)
             /\ Cosine(out.query, out.result[i].pos) = Cosine(out.query, out.result[j].pos))
                => i < j

\* The index was built on the NOTES unit and then the OPTIONS unit of the
\* page, and the search for the query returned both with the same final
\* score, NOTES first: no key term of the query is in 'options', so OPTIONS
\* gets no boost and the tie keeps insertion order.
C16_Witness ==
    /\ Searched
    /\ built
    /\ out.query = VerboseQuery
    /\ Len(out.result) = 2
    /\ out.result[1].doc.section = <<"N","O","T","E","S">>
    /\ out.result[2].doc.section = <<"O","P","T","I","O","N","S">>
    /\ out.result[1].score = out.result[2].score
    /\ out.result[2].score = Cosine(out.query, out.result[2].pos)
    /\ out.result[2].score > 0

Learned == out.op = "learned"

\* Whether the first 2000 characters of the content hold the heading h on a
\* line of its own
HasHeading(content, h) ==
    \E i \in DOMAIN SplitOn(Prefix(content, 2000), "\n") :
        LET heading == ManHeading(SplitOn(Prefix(content, 2000), "\n")[i])
        IN  heading.matched /\ heading.name = h

\* C17 as stated: a 'man:' source is parsed by parse_manpage; a file or URL
\* source is parsed by parse_manpage whenever its first 2000 characters hold
\* a NAME heading and a SYNOPSIS heading, and by parse_markdown in every
\* other case.
C17_ParserChoice ==
    Learned =>
        /\ ~out.data.raised
        /\ DictAt(out.data.value, <<"t","y","p","e">>) =
               IF StartsWith(out.source, <<"m","a","n",":">>) THEN Str(<<"m","a","n","p","a","g","e">>)
               ELSE IF HasHeading(out.content, <<"N","A","M","E">>) /\ HasHeading(out.content, <<"S","Y","N","O","P","S","I","S">>)
               THEN Str(<<"m","a","n","p","a","g","e">>)
               ELSE Str(<<"m","a","r","k","d","o","w","n">>)

\* learn has run on the file w.md whose text starts with a NAME heading and
\* a SYNOPSIS heading: the extension is tested first and the record is a
\* markdown record.
C17_Witness ==
    /\ Learned
    /\ out.source = <<"w",".","m","d">>
    /\ out.content = ManContent
    /\ HasHeading(out.content, <<"N","A","M","E">>)
    /\ HasHeading(out.content, <<"S","Y","N","O","P","S","I","S">>)
    /\ DictAt(out.data.value, <<"t","y","p","e">>) = Str(<<"m","a","r","k","d","o","w","n">>)

Tokenized == out.op = "tokens"

\* The characters a token can hold: lowercase letters, digits, hyphen,
\* underscore and period
KeptChars == Range(LowerChars) \cup DigitChars \cup {"-", "_", "."}

\* C18: the tokens _tokenize returns are, in order and with duplicates, the
\* lowercased maximal runs of characters that are alphanumeric, hyphen,
\* underscore or period, without the runs of one character and the runs of
\* digits only; no token is of length <= 1, all digits, or holds an
\* uppercase or replaced character.
C18_Tokenize ==
    Tokenized =>
        LET text     == out.text
            tokens   == out.tokens
            sep(i)   == LowerChar(text[i]) \notin KeptChars
            runs     == {r \in (DOMAIN text) \X (DOMAIN text) :
                            /\ r[1] <= r[2]
                            /\ \A k \in r[1]..r[2] : ~sep(k)
                            /\ r[1] = 1 \/ sep(r[1] - 1)
                            /\ r[2] = Len(text) \/ sep(r[2] + 1)}
            kept     == {r \in runs :
                            /\ r[2] > r[1]
                            /\ \E k \in r[1]..r[2] : text[k] \notin DigitChars}
            nth(k)   == CHOOSE r \in kept : Cardinality({q \in kept : q[1] < r[1]}) = k - 1
            piece(r) == [k \in 1..(r[2] - r[1] + 1) |-> LowerChar(text[r[1] + k - 1])]
        IN  /\ Len(tokens) = Cardinality(kept)
            /\ \A k \in DOMAIN tokens : tokens[k] = piece(nth(k))
            /\ \A k \in DOMAIN tokens :
                  /\ Len(tokens[k]) > 1
                  /\ \E i \in DOMAIN tokens[k] : tokens[k][i] \notin DigitChars
                  /\ \A i \in DOMAIN tokens[k] : tokens[k][i] \in KeptChars

\* _tokenize has run on 'Ab-1 22 ab-1 x!Y_z. 3.5<tab>ab-1': 'ab-1' is kept
\* three times, '22' is dropped as numeric, 'x' as too short, '!' splits
\* 'x' from 'y_z.', and '3.5' is kept because of its period.
C18_Witness ==
    /\ Tokenized
    /\ out.text = LongerText
    /\ out.tokens = <<<<"a","b","-","1">>, <<"a","b","-","1">>, <<"y","_","z",".">>, <<"3",".","5">>, <<"a","b","-","1">>>>

\* The number of units that hold the term
DocFreq(term) ==
    Cardinality({i \in DOMAIN documents : term \in Range(documents[i].tokens)})

\* C19: in the index build_index has just built on N units, the IDF weight
\* of every term of the vocabulary is greater than 0, a term held by more
\* units never has a greater weight than a term held by fewer, and the
\* weight ln(N / (df + 1)) + 1 does not increase as df goes from 1 to N.
C19_IdfMonotonePositive ==
    out.op = "build_index" =>
        /\ \A t \in DOMAIN idf : idf[t] > 0
        /\ \A t, u \in DOMAIN idf : DocFreq(t) <= DocFreq(u) => idf[t] >= idf[u]
        /\ \A d1, d2 \in 1..Len(documents) :
               d1 <= d2 => /\ LogMilli(Len(documents), d1 + 1) + Milli
                                >= LogMilli(Len(documents), d2 + 1) + Milli
                           /\ LogMilli(Len(documents), d2 + 1) + Milli > 0

\* build_index has run on three units that give the terms 'cp', 'opt' and
\* 'all' the document frequencies 1, 2 and 3: the weights go down as df
\* goes up, and the weight of the term held by all units is positive.
C19_Witness ==
    /\ out.op = "build_index"
    /\ Len(documents) = 3
    /\ DocFreq(<<"c","p">>) = 1
    /\ DocFreq(<<"o","p","t">>) = 2
    /\ DocFreq(<<"a","l","l">>) = 3
    /\ idf[<<"c","p">>] > idf[<<"o","p","t">>]
    /\ idf[<<"o","p","t">>] > idf[<<"a","l","l">>]
    /\ idf[<<"a","l","l">>] > 0

Synthesized == out.op = "synthesize" /\ out.results # <<>>

\* The lines of the answer that follow the 'Sources' heading and its empty
\* line
SourceLines(answer) ==
    LET lines == SplitOn(answer, "\n")
        heads == {i \in DOMAIN lines : lines[i] = <<OpenBook>> \o <<" ","*","*","S","o","u","r","c","e","s",":","*","*">>}
        last  == CHOOSE i \in heads : \A j \in heads : j <= i
    IN  SubSeq(lines, last + 2, Len(lines))

\* C20: for a non-empty result list the answer ends with one citation line
\* per distinct source of the results, in the order in which the sources
\* first appear in the ranking, each with the title of the source's first
\* result and followed by at most two section lines and nothing else.
C20_OneCitationPerSource ==
    Synthesized =>
        LET results == out.results
            tail    == SourceLines(out.answer.value)
            firsts  == {i \in DOMAIN results :
                           \A j \in 1..(i - 1) : results[j].doc.source # results[i].doc.source}
            first(k) == CHOOSE i \in firsts : Cardinality({j \in firsts : j < i}) = k - 1
            cites   == {p \in DOMAIN tail : StartsWith(tail[p], <<Bullet>>)}
            cite(k) == CHOOSE p \in cites : Cardinality({q \in cites : q < p}) = k - 1
            next(k) == IF k = Cardinality(cites) THEN Len(tail) + 1 ELSE cite(k + 1)
        IN  /\ ~out.answer.raised
            /\ Cardinality(cites) = Cardinality(firsts)
            /\ \A p \in DOMAIN tail :
                   p \in cites \/ StartsWith(tail[p], <<" "," ","-"," ","S","e","c","t","i","o","n",":"," ","*">>)
            /\ tail # <<>> => 1 \in cites
            /\ \A k \in 1..Cardinality(cites) :
                   /\ StartsWith(tail[cite(k)],
                                 <<Bullet>> \o <<" ">> \o <<Backquote>>
                                     \o results[first(k)].doc.title \o <<Backquote>> \o <<" ","(">>)
                   /\ Contains(tail[cite(k)],
                               LET parts == SplitOn(results[first(k)].doc.source, "/")
                               IN  <<"(">> \o parts[Len(parts)] \o <<")">>)
                   /\ next(k) - cite(k) - 1 <= 2

\* synthesize_answer has run on three results of the one source 'man:ls':
\* the answer cites 'ls' once and lists two sections under it.
C20_Witness ==
    /\ Synthesized
    /\ Len(out.results) = 3
    /\ \A i \in DOMAIN out.results : out.results[i].doc.source = <<"m","a","n",":","l","s">>
    /\ Len(SourceLines(out.answer.value)) = 3
    /\ StartsWith(SourceLines(out.answer.value)[1], <<Bullet>>)
    /\ StartsWith(SourceLines(out.answer.value)[2], <<" "," ","-"," ","S","e","c","t","i","o","n",":"," ","*">>)
    /\ StartsWith(SourceLines(out.answer.value)[3], <<" "," ","-"," ","S","e","c","t","i","o","n",":"," ","*">>)

\* synthesize_answer has run on results of two sources, 'cp.md' ranked
\* first and 'man:ls' behind it twice: two citation lines, in that order.
C20_WitnessTwoSources ==
    /\ Synthesized
    /\ Len(out.results) = 3
    /\ out.results[1].doc.source = <<"c","p",".","m","d">>
    /\ out.results[2].doc.source = <<"m","a","n",":","l","s">>
    /\ out.results[3].doc.source = <<"m","a","n",":","l","s">>
    /\ Len(SourceLines(out.answer.value)) = 5
    /\ StartsWith(SourceLines(out.answer.value)[1], <<Bullet>> \o <<" ">> \o <<Backquote>> \o <<"c","p">>)
    /\ StartsWith(SourceLines(out.answer.value)[3], <<Bullet>> \o <<" ">> \o <<Backquote>> \o <<"l","s">>)

\* The four boosts of search for a unit and a query, in the order of the
\* code: the factor as a fraction and whether its condition holds
BoostFactors(query, doc) ==
    LET key_terms == Range(Split(Lower(query))) \ stop_words
        label     == Lower(doc.section)
    IN  << [num |-> 15, den |-> 10,
            holds |-> \E t \in key_terms : Contains(label, t)],
           [num |-> 13, den |-> 10,
            holds |-> \E t \in key_terms : Contains(Lower(doc.title), t)],
           [num |-> 115, den |-> 100,
            holds |-> Contains(label, <<"d","e","s","c","r","i","p","t","i","o","n">>) \/ Contains(label, <<"o","v","e","r","v","i","e","w">>)],
           [num |-> 11, den |-> 10,
            holds |-> Contains(label, <<"c","o","d","e">>)
                         /\ (Contains(Lower(query), <<"e","x","a","m","p","l","e">>) \/ Contains(Lower(query), <<"h","o","w">>))] >>

\* sim times the factors that hold, one after the other
RECURSIVE ApplyFactors(_, _)
ApplyFactors(sim, factors) ==
    IF factors = <<>> THEN sim
    ELSE ApplyFactors(IF Head(factors).holds
                      THEN (sim * Head(factors).num) \div Head(factors).den
                      ELSE sim,
                      Tail(factors))

\* C21: the final score of every unit a search returns is its cosine
\* similarity times the factors of exactly the boost conditions that hold,
\* each applied once, and so never above cosine x 1.5 x 1.3 x 1.15 x 1.1.
C21_BoostsOncePerCondition ==
    Searched =>
        \A i \in DOMAIN out.result :
            LET r == out.result[i]
            IN  /\ r.score = ApplyFactors(Cosine(out.query, r.pos),
                                          BoostFactors(out.query, r.doc))
                /\ r.score * (10 * 10 * 100 * 10)
                       <= Cosine(out.query, r.pos) * (15 * 13 * 115 * 11)

\* The search for 'verbose opt options w' returned the OPTIONS unit of the
\* page 'w': two key terms ('opt', 'options') are in the section label and
\* one ('w') in the title, and the score is the cosine times 1.5 and 1.3,
\* each once.
C21_Witness ==
    /\ Searched
    /\ out.query = <<"v","e","r","b","o","s","e"," ","o","p","t"," ","o","p","t","i","o","n","s"," ","w">>
    /\ \E i \in DOMAIN out.result :
          LET r == out.result[i]
              c == Cosine(out.query, r.pos)
          IN  /\ r.doc.section = <<"O","P","T","I","O","N","S">>
              /\ c > 0
              /\ Cardinality({t \in Range(Split(Lower(out.query))) \ stop_words :
                                 Contains(Lower(r.doc.section), t)}) = 2
              /\ r.score = (((c * 15) \div 10) * 13) \div 10
              /\ r.score > c

Snipped == out.op = "snippet"

\* C22 as stated: extract_relevant_snippet returns the content verbatim when
\* it fits the budget; otherwise the text it returns is at most max_chars
\* long, plus the three characters of the truncation marker in the fallback
\* case, also when the best-scoring sentence is itself longer than max_chars.
C22_SnippetWithinBudget ==
    Snipped =>
        /\ Len(out.content) <= out.max_chars => out.snippet = out.content
        /\ Len(out.content) > out.max_chars =>
              Len(out.snippet) <= out.max_chars
                  + (IF out.run.branch = "fallback" THEN 3 ELSE 0)

\* The best-scoring sentence is longer than the budget and is returned whole
C22_Witness ==
    /\ Snipped
    /\ out.content = <<"A","A","A","A","A","A","A","A","A","A"," ","b","!"," ","z","z",".">>
    /\ out.query = <<"b">>
    /\ out.max_chars = 9
    /\ out.run.branch = "grown"
    /\ Len(out.run.sentences[out.run.best_idx + 1]) > out.max_chars
    /\ out.snippet = <<"A","A","A","A","A","A","A","A","A","A"," ","b","!">>

\* The number of words of the query that occur in a sentence, case ignored
TermsIn(sentence, query) ==
    Cardinality({w \in Range(Words(Lower(query))) : Contains(Lower(sentence), w)})

\* The 1-based place of the first sentence that no sentence outscores
FirstBest(sentences, query) ==
    CHOOSE i \in DOMAIN sentences :
        /\ \A j \in DOMAIN sentences :
              TermsIn(sentences[j], query) <= TermsIn(sentences[i], query)
        /\ \A j \in 1..(i - 1) :
              TermsIn(sentences[j], query) < TermsIn(sentences[i], query)

\* C23: when the content exceeds the budget and a sentence contains a query
\* term, the snippet is a contiguous run of the sentences of the content, in
\* their order and a space between two, that includes the first of the
\* highest-scoring sentences; when no sentence contains a query term it is
\* the first max_chars characters of the content followed by '...'.
C23_SnippetAroundBest ==
    (Snipped /\ Len(out.content) > out.max_chars) =>
        LET sentences == SplitSentences(out.content)
            best      == FirstBest(sentences, out.query)
        IN  IF TermsIn(sentences[best], out.query) > 0
            THEN \E a \in 1..best : \E b \in best..Len(sentences) :
                     out.snippet = Join(SubSeq(sentences, a, b), <<" ">>)
            ELSE out.snippet = Prefix(out.content, out.max_chars) \o <<".",".",".">>

\* Two sentences share the highest score and the snippet grows from the
\* first of them
C23_Witness ==
    /\ Snipped
    /\ out.content = <<"z","z","."," ","A","b"," ","b","."," ","z","z","."," ","b","1"," ","z","z","?">>
    /\ out.query = <<"b">>
    /\ out.max_chars = 9
    /\ TermsIn(<<"A","b"," ","b",".">>, out.query) = TermsIn(<<"b","1"," ","z","z","?">>, out.query)
    /\ out.run.best_idx = 1
    /\ out.snippet = <<"z","z","."," ","A","b"," ","b",".">>

\* C24: the grow loop of extract_relevant_snippet ends, and it makes at most
\* one pass more than it adds sentences (every pass adds a sentence or is
\* the last one), so the passes are at most as many as the sentences.
C24_GrowLoopBounded ==
    (Snipped /\ out.run.branch = "grown") =>
        LET included == out.run.next_idx - out.run.prev_idx - 1
        IN  /\ out.run.prev_idx >= -1
            /\ out.run.next_idx <= Len(out.run.sentences)
            /\ out.run.iterations <= included
            /\ included <= Len(out.run.sentences)
            /\ out.run.iterations <= Len(SplitSentences(out.content))

\* The sentence before the best one never fits, the two after it do: three
\* passes, the last one adding nothing
C24_Witness ==
    /\ Snipped
    /\ out.content = <<"A","A","A","A","A","A","A","A","A","A"," ","b","!"," ","b","1"," ","z","z","?"," ","z","z","."," ","z","z",".">>
    /\ out.query = <<"B"," ","z","z">>
    /\ out.max_chars = 14
    /\ out.run.best_idx = 1
    /\ out.run.prev_idx = 0
    /\ out.run.next_idx = 4
    /\ out.run.iterations = 3
    /\ out.snippet = <<"b","1"," ","z","z","?"," ","z","z","."," ","z","z",".">>

\* The places of the heading lines of a page that are followed by at least
\* one line before the next heading or the end, and the last line of the
\* section such a heading opens
TextHeadings(lines) ==
    {i \in 1..(Len(lines) - 1) :
        ManHeading(lines[i]).matched /\ ~ManHeading(lines[i + 1]).matched}

LastLineOf(lines, i) ==
    CHOOSE j \in (i + 1)..Len(lines) :
        /\ \A k \in (i + 1)..j : ~ManHeading(lines[k]).matched
        /\ j = Len(lines) \/ ManHeading(lines[j + 1]).matched

\* One entry for each such heading, in the order of the source: its name and
\* the lines of its section, joined by line breaks and stripped
SectionsInSource(lines) ==
    LET at     == TextHeadings(lines)
        nth(k) == CHOOSE i \in at : Cardinality({j \in at : j < i}) = k - 1
    IN  [k \in 1..Cardinality(at) |->
            <<Strip(lines[nth(k)]),
              Str(Strip(Join(SubSeq(lines, nth(k) + 1, LastLineOf(lines, nth(k))),
                             <<"\n">>)))>>]

\* C25 as stated: every all-caps heading of a page that is followed by at
\* least one line yields an entry of sections with its name and the lines
\* accumulated up to the next heading, the entries are in the order of the
\* source, and no accumulated text is lost, also when a heading name occurs
\* more than once.
C25_SectionsKept ==
    ParsedManpage =>
        DictAt(out.data, <<"s","e","c","t","i","o","n","s">>).v = SectionsInSource(SplitOn(out.content, "\n"))

\* OPTIONS occurs twice: the entry holds the lines of the second section
\* only, the line of the first one is in no entry
C25_Witness ==
    /\ ParsedManpage
    /\ out.content = <<"O","P","T","I","O","N","S","\n">> \o VerboseLine \o <<"\n","O","P","T","I","O","N","S","\n"," "," "," "," "," "," "," ","-","q"," "," ","q","u","i","e","t">>
    /\ Cardinality(TextHeadings(SplitOn(out.content, "\n"))) = 2
    /\ DictAt(out.data, <<"s","e","c","t","i","o","n","s">>).v = << <<<<"O","P","T","I","O","N","S">>, Str(<<"-","q"," "," ","q","u","i","e","t">>)>> >>

ExamplesExtracted == out.op = "examples"

\* A line that opens an example block: a prompt line, or a line indented by
\* seven spaces that is not an option line
OpensExample(line) ==
    \/ StartsWith(Strip(line), <<"$">>)
    \/ StartsWith(line, <<" "," "," "," "," "," "," ">>) /\ ~StartsWith(Strip(line), <<"-">>)

\* The examples of a section when a block ends at the next blank line or
\* block marker: open says whether a block is open at line i
RECURSIVE BlocksFrom(_, _, _, _, _)
BlocksFrom(lines, i, examples, cur, open) ==
    LET closed == IF cur # <<>> THEN Append(examples, Str(Join(cur, <<"\n">>)))
                  ELSE examples
    IN  IF i > Len(lines) THEN closed
        ELSE IF OpensExample(lines[i])
        THEN BlocksFrom(lines, i + 1, closed,
                        <<LStripChars(Strip(lines[i]), {"$", " "})>>, TRUE)
        ELSE IF Strip(lines[i]) = <<>>
        THEN BlocksFrom(lines, i + 1, closed, <<>>, FALSE)
        ELSE IF open
        THEN BlocksFrom(lines, i + 1, examples, Append(cur, Strip(lines[i])), TRUE)
        ELSE BlocksFrom(lines, i + 1, examples, cur, FALSE)

\* C26 as stated: an example block is opened by a prompt line or a line
\* indented by seven spaces, the non-empty lines behind it are appended,
\* and the block ends at the next blank line or block marker; a non-empty
\* line that opens no block and follows a blank line is in no example.
C26_BlankLineEndsExample ==
    ExamplesExtracted =>
        out.examples = BlocksFrom(SplitOn(out.text, "\n"), 1, <<>>, <<>>, FALSE)

\* A blank line stands between the example and a line of text, and the
\* example holds the line of text
C26_Witness ==
    /\ ExamplesExtracted
    /\ out.text = <<"$"," ","w"," ","-","v","\n","\n","n","o","t","e"," ","t","e","x","t">>
    /\ ~OpensExample(<<"n","o","t","e"," ","t","e","x","t">>)
    /\ out.examples = <<Str(<<"w"," ","-","v","\n","n","o","t","e"," ","t","e","x","t">>)>>

\* The places of the fence lines of a source, the k-th of them, and the
\* places that are inside a fence: behind an opening fence (the 1st, 3rd,
\* ... fence line) and before the next fence line
FenceLines(lines) == {i \in DOMAIN lines : StartsWith(lines[i], Fence)}

NthFence(lines, k) ==
    CHOOSE i \in FenceLines(lines) :
        Cardinality({j \in FenceLines(lines) : j < i}) = k - 1

InsideFence(lines) ==
    {i \in DOMAIN lines \ FenceLines(lines) :
        Cardinality({j \in FenceLines(lines) : j < i}) % 2 = 1}

\* One record for each closed fence of the source, in order: the language
\* behind the opening fence and the lines between the two fences
BlocksInSource(lines) ==
    [k \in 1..(Cardinality(FenceLines(lines)) \div 2) |->
        LET open  == NthFence(lines, 2 * k - 1)
            close == NthFence(lines, 2 * k)
        IN  Dict(<< <<<<"l","a","n","g","u","a","g","e">>, Str(Strip(Suffix(lines[open], 3)))>>,
                    <<<<"c","o","n","t","e","n","t">>,
                      Str(Join(SubSeq(lines, open + 1, close - 1), <<"\n">>))>> >>)]

\* The source without the lines inside its fences
OutsideFences(lines) ==
    LET at     == DOMAIN lines \ InsideFence(lines)
        nth(k) == CHOOSE i \in at : Cardinality({j \in at : j < i}) = k - 1
    IN  [k \in 1..Cardinality(at) |-> lines[nth(k)]]

\* C27 as stated: every closed fence of a markdown source yields one record
\* of code_blocks, in order, with its language and exactly the lines between
\* the two fences; the lines inside a fence are neither title nor section
\* heading nor section text, so title and sections are those of the source
\* without these lines.
C27_FencesKeepTheirLines ==
    ParsedMarkdown =>
        LET lines == SplitOn(out.content, "\n")
            bare  == parse_markdown(Join(OutsideFences(lines), <<"\n">>), <<"w",".","m","d">>)
        IN  /\ DictAt(out.data, <<"c","o","d","e","_","b","l","o","c","k","s">>).v = BlocksInSource(lines)
            /\ DictAt(out.data, <<"t","i","t","l","e">>) = DictAt(bare, <<"t","i","t","l","e">>)
            /\ DictAt(out.data, <<"s","e","c","t","i","o","n","s">>) = DictAt(bare, <<"s","e","c","t","i","o","n","s">>)

\* A heading line and a title line stand inside a closed fence: the record
\* of the block lacks the heading line, and the title is taken from inside
C27_Witness ==
    /\ ParsedMarkdown
    /\ out.content = Fence \o <<"b","a","s","h","\n","#","#"," ","S","e","c","\n","#"," ","T","\n">> \o Fence
    /\ InsideFence(SplitOn(out.content, "\n")) = {2, 3}
    /\ DictAt(out.data, <<"c","o","d","e","_","b","l","o","c","k","s">>).v =
           << Dict(<< <<<<"l","a","n","g","u","a","g","e">>, Str(<<"b","a","s","h">>)>>, <<<<"c","o","n","t","e","n","t">>, Str(<<"#"," ","T">>)>> >>) >>
    /\ DictAt(out.data, <<"t","i","t","l","e">>) = Str(<<"T">>)

\* The source a stored record was learned from: the learned_from entry that
\* learn writes into every record
LearnedFrom(file) ==
    LET loaded == json_load(file.text)
    IN  IF ~loaded.raised /\ IsDict(loaded.value)
           /\ DictHas(loaded.value, <<"l","e","a","r","n","e","d","_","f","r","o","m">>)
        THEN SomeStr(DictAt(loaded.value, <<"l","e","a","r","n","e","d","_","f","r","o","m">>).v)
        ELSE NoneStr

\* C28 as stated: every unit load_learned_docs builds from a record that
\* learn and store wrote carries as source the source the record was learned
\* from (the path, the URL, or 'man:<command>'), and the citations of the
\* answer group the results of that record under this source.
C28_UnitsCarryLearnedSource ==
    Asked =>
        \A k \in DOMAIN out.json_files :
            LET file  == out.json_files[k]
                units == LoadFile(file)
            IN  LearnedFrom(file).some =>
                    /\ \A i \in DOMAIN units : units[i].source = LearnedFrom(file).v
                    /\ \A i \in DOMAIN out.results :
                          out.results[i].doc \in Range(units) =>
                              \E info \in Range(DocsUsed(out.query, out.results)) :
                                  info.source = LearnedFrom(file).v

\* The record learned from man:ls is in the store; its units carry the path
\* of the stored file, and the answer cites the name of that file
C28_Witness ==
    /\ Asked
    /\ \E k \in DOMAIN out.json_files :
          /\ out.json_files[k].stem = <<"l","s">>
          /\ LearnedFrom(out.json_files[k]) = SomeStr(<<"m","a","n",":","l","s">>)
    /\ \E i \in DOMAIN out.results :
          /\ out.results[i].doc.id = <<"l","s",":","O","P","T","I","O","N","S">>
          /\ out.results[i].doc.source = JsonPath(<<"l","s">>)
    /\ \E info \in Range(DocsUsed(out.query, out.results)) :
          info.source = JsonPath(<<"l","s">>)
    /\ Contains(out.printed, <<"(","l","s",".","j","s","o","n",")">>)
    /\ ~Contains(out.printed, <<"m","a","n",":","l","s">>)

\* C29: in every state reached by add_document, build_index and search
\* calls there are at most as many vectors as units, vector i is the TF-IDF
\* vector of the tokens of unit i under the IDF table of the searcher, every
\* result of a search is a unit at a position that exists, and a search
\* before the first build_index returns nothing.
C29_VectorsBelongToUnits ==
    /\ Len(doc_vectors) <= Len(documents)
    /\ \A i \in DOMAIN doc_vectors :
          doc_vectors[i] = _vectorize(idf, _compute_tf(_tokenize(documents[i].content)))
    /\ Searched =>
          /\ \A k \in DOMAIN out.result :
                /\ out.result[k].pos \in DOMAIN doc_vectors
                /\ out.result[k].pos \in DOMAIN documents
                /\ out.result[k].doc = documents[out.result[k].pos]
          /\ ~built => out.result = <<>>

\* A search after build_index on two units and one more add_document: two
\* vectors for three units, and the search returns units
C29_Witness ==
    /\ Searched
    /\ built
    /\ Len(doc_vectors) = 2
    /\ Len(documents) = 3
    /\ documents[1].content # documents[3].content
    /\ out.result # <<>>

(***************************************************************************)
(* Searches over units that share no token with the query                  *)
(***************************************************************************)
\* A unit whose content leaves no token (every word is one character long);
\* its section label holds the key term of the query 'all'
BareUnit ==
    [doc_id |-> <<"c","p",":","A","l","l">>, title |-> <<"c","p">>, content |-> <<"a"," ","-"," ","b">>,
     source |-> <<"c","p",".","m","d">>, section_name |-> <<"A","l","l">>]

SparseUnits == {u \in UnitPool : u.doc_id # <<"l","s",":","c","o","d","e",":","0">>} \cup {BareUnit}

AddSparseUnit ==
    \E u \in SparseUnits :
        /\ Len(documents) < MaxUnits
        /\ documents' = Append(documents,
                               add_document(u.doc_id, u.title, u.content,
                                            u.source, u.section_name))
        /\ out' = [op |-> "add_document"]
        /\ UNCHANGED <<vocab, idf, doc_vectors, built, pc, files>>

NextSparse ==
    \/ AddSparseUnit
    \/ BuildIndex
    \/ Search

SpecSparse == Init /\ [][NextSparse]_vars

\* The tokens of the query and of the unit at position pos
SharedTokens(query, pos) ==
    Range(_tokenize(query)) \cap Range(documents[pos].tokens)

\* C30: when the query and an indexed unit share no token, the query or the
\* unit without any token included, the cosine similarity is 0, the score
\* after the boosts is 0, and the unit is not in the result of the search.
C30_DisjointNeverMatches ==
    Searched =>
        \A pos \in DOMAIN doc_vectors :
            SharedTokens(out.query, pos) = {} =>
                /\ Cosine(out.query, pos) = 0
                /\ Boosted(Cosine(out.query, pos), documents[pos],
                           Range(Split(Lower(out.query))) \ stop_words,
                           Lower(out.query)) = 0
                /\ \A k \in DOMAIN out.result : out.result[k].pos # pos

\* The query 'all' on an index that holds the unit without tokens, whose
\* section label 'All' earns the keyword boost, and a unit that matches:
\* only the matching unit is returned
C30_Witness ==
    /\ Searched
    /\ out.query = <<"a","l","l">>
    /\ out.top_k = TOP_K_RESULTS
    /\ \E pos \in DOMAIN doc_vectors :
          /\ documents[pos].id = <<"c","p",":","A","l","l">>
          /\ documents[pos].tokens = <<>>
          /\ AnyTermIn({<<"a","l","l">>}, Lower(documents[pos].section))
          /\ \A k \in DOMAIN out.result : out.result[k].pos # pos
    /\ out.result # <<>>
=============================================================================
